---- MODULE Spec2Model ----
(***************************************************************************)
(* Model of the VPG editor add-on (src/vpg_editor): the text codec         *)
(* (parse_vpg_text, mesh_to_vpg_text, _merge_geometry_with_existing), the  *)
(* geometry builder (generate_mesh), the document store (text_editor.py)   *)
(* and the watchers (mesh_watcher.py, operators.py).                       *)
(*                                                                         *)
(* A text (a Python str, a Blender Text datablock) is the non-empty        *)
(* sequence of its lines, i.e. the string split on "\n": the empty string  *)
(* is <<EmptyLine>>, "a\n" is <<a, EmptyLine>>.  A line is a record that   *)
(* keeps what the code looks at: its first character class (k), and for a  *)
(* vertex or face line its tokens.                                         *)
(***************************************************************************)
EXTENDS Integers, Sequences, FiniteSets, TLC

(***************************************************************************)
(* Lines and tokens                                                        *)
(***************************************************************************)

\* "" : the line with no character
EmptyLine == [k |-> "empty"]

\* a line of whitespace only: line.strip() is empty, the line is not ""
WsLine == [k |-> "ws"]

\* "# ..." : first non-space character is '#'
Comment(n) == [k |-> "#", v |-> n]

\* any other line whose first character is none of n, N, e, E, #
Opaque(n) == [k |-> "o", v |-> n]

\* A vertex id token: first letter n (up = FALSE) or N (up = TRUE), followed
\* by the decimal digits of v (p = "num") or by something that is not all
\* digits (p = "alpha", v names which).  p = "none" is the empty byte string
\* of a vertex that was never stamped.
MkId(up, p, v) == [up |-> up, p |-> p, v |-> v]

NoId == MkId(FALSE, "none", 0)

\* str.lower() on an id token
Lower(id) == [id EXCEPT !.up = FALSE]

\* A coordinate token stands for the three tokens x y z of a vertex line:
\* v is the value float() gives, canon tells whether the spelling is the one
\* Python's float formatting produces ("0.0") or another one ("0", "0.00").
MkCo(v, canon) == [v |-> v, canon |-> canon]

\* float(token)
ParseFloat(tok) == tok.v

\* f"{co.x}": the formatting of a float
FormatFloat(x) == MkCo(x, TRUE)

\* mathutils.Vector stores 32-bit floats: value 2 stands for a double that is
\* no 32-bit float (0.1), value 3 for the 32-bit float nearest to it.
ToFloat32(x) == IF x = 2 THEN 3 ELSE x

\* "<id> <x> <y> <z>"; ok = "short": fewer than 4 tokens; ok = "nan": a
\* coordinate token float() rejects
VertexLine(id, ok, co) == [k |-> "n", id |-> id, ok |-> ok, co |-> co]

\* "e<tag> <i1> <i2> <i3> ..."; idx are the index tokens as written (1-based),
\* nan tells that one of the first three is no integer
FaceLine(tag, idx, nan) == [k |-> "e", tag |-> tag, idx |-> idx, nan |-> nan]

\* line.strip() is empty
IsBlank(l) == l.k \in {"empty", "ws"}

\* stripped.startswith('#')
IsComment(l) == l.k = "#"

\* stripped[0].lower() in {'n', 'e'}
IsGeometryLine(l) == l.k \in {"n", "e"}

\* the claim's opaque line: non-blank, no comment, first token starts with
\* neither n nor e
IsOpaque(l) == l.k = "o"

(***************************************************************************)
(* str.splitlines and "\n".join                                            *)
(***************************************************************************)

Front(s) == SubSeq(s, 1, Len(s) - 1)

Last(s) == s[Len(s)]

\* text.splitlines(): a final line terminator starts no further line
splitlines(text) == IF Last(text) = EmptyLine THEN Front(text) ELSE text

\* "\n".join(lines)
join(lines) == IF lines = <<>> THEN <<EmptyLine>> ELSE lines

\* truth value of a str
Truthy(text) == text # <<EmptyLine>>

EmptyText == <<EmptyLine>>

Range(s) == {s[i] : i \in 1..Len(s)}

(***************************************************************************)
(* parse_vpg_text                                                          *)
(***************************************************************************)

HasId(vs, id) == \E i \in 1..Len(vs) : vs[i].id = id

\* a slip: a coordinate that float() rejects is read as 0.0
parse_vertex_line_zero_on_error(l, vs) ==
  IF l.ok = "short" THEN vs
  ELSE IF HasId(vs, Lower(l.id)) THEN vs
  ELSE Append(vs, [id |-> Lower(l.id), co |-> IF l.ok = "ok" THEN ParseFloat(l.co) ELSE 0])

\* a slip: no test "if node_id in node_id_to_index"
parse_vertex_line_keeps_duplicates(l, vs) ==
  IF l.ok # "ok" THEN vs
  ELSE Append(vs, [id |-> Lower(l.id), co |-> ParseFloat(l.co)])

\* the vertex branch of the loop body
parse_vertex_line(l, vs) ==
  IF l.ok # "ok" THEN vs
  ELSE IF HasId(vs, Lower(l.id)) THEN vs
  ELSE Append(vs, [id |-> Lower(l.id), co |-> ParseFloat(l.co)])

\* a slip: an index out of range is clamped into [0, len(vertices) - 1]
parse_face_line_clamped(l, vs, fs) ==
  IF Len(l.idx) < 3 THEN fs
  ELSE IF l.nan THEN fs
  ELSE IF vs = <<>> THEN fs
  ELSE Append(fs, [j \in 1..3 |->
                     IF l.idx[j] - 1 < 0 THEN 0
                     ELSE IF l.idx[j] - 1 >= Len(vs) THEN Len(vs) - 1
                     ELSE l.idx[j] - 1])

\* the element branch of the loop body: 0-based triple, or nothing
parse_face_line(l, vs, fs) ==
  IF Len(l.idx) < 3 THEN fs
  ELSE IF l.nan THEN fs
  ELSE LET tri == <<l.idx[1] - 1, l.idx[2] - 1, l.idx[3] - 1>>
       IN  IF \A j \in 1..3 : 0 <= tri[j] /\ tri[j] < Len(vs)
           THEN Append(fs, tri) ELSE fs

RECURSIVE parse_lines(_, _, _)
parse_lines(ls, vs, fs) ==
  IF ls = <<>> THEN [verts |-> vs, faces |-> fs]
  ELSE LET l == Head(ls)
       IN  IF l.k = "n" THEN parse_lines(Tail(ls), parse_vertex_line(l, vs), fs)
           ELSE IF l.k = "e" THEN parse_lines(Tail(ls), vs, parse_face_line(l, vs, fs))
           ELSE parse_lines(Tail(ls), vs, fs)

\* verts[i] = [id |-> node_index_to_id[i], co |-> vertices[i]], faces = indices
parse_vpg_text(filetext) == parse_lines(splitlines(filetext), <<>>, <<>>)

IdsOf(vs) == [i \in 1..Len(vs) |-> vs[i].id]

(***************************************************************************)
(* generate_mesh                                                           *)
(***************************************************************************)

\* bm.faces.new raises ValueError when a vertex is used twice in the face or a
\* face on the same vertices exists already
FaceRaises(tri, built) ==
  \/ Cardinality(Range(tri)) < Len(tri)
  \/ \E j \in 1..Len(built) : Range(built[j]) = Range(tri)

RECURSIVE FacesBuildable(_, _)
FacesBuildable(fs, built) ==
  IF fs = <<>> THEN TRUE
  ELSE IF FaceRaises(Head(fs), built) THEN FALSE
  ELSE FacesBuildable(Tail(fs), Append(built, Head(fs)))

\* transformed_positions: a node id keeps the position of its first vertex line
FirstWithId(vs, i) ==
  CHOOSE j \in 1..i : vs[j].id = vs[i].id /\ \A k \in 1..(j - 1) : vs[k].id # vs[i].id

\* the vertices as stamped: both id layers hold the parsed id, the position is
\* a Vector (the object's matrix is the identity)
StampVerts(vs) ==
  [i \in 1..Len(vs) |-> [id |-> vs[i].id, co |-> ToFloat32(vs[FirstWithId(vs, i)].co)]]

\* [ok |-> FALSE] when bm.faces.new raised, else the bmesh that was built
generate_mesh(doc) ==
  IF FacesBuildable(doc.faces, <<>>)
  THEN [ok |-> TRUE, verts |-> StampVerts(doc.verts), faces |-> doc.faces]
  ELSE [ok |-> FALSE, verts |-> <<>>, faces |-> <<>>]

(***************************************************************************)
(* _merge_geometry_with_existing                                           *)
(***************************************************************************)

\* geometry_indices
GeometryIndices(base_lines) == {i \in 1..Len(base_lines) : IsGeometryLine(base_lines[i])}

Min(S) == CHOOSE x \in S : \A y \in S : x <= y

Max(S) == CHOOSE x \in S : \A y \in S : x >= y

\* base_lines[:first_idx]
MergePrefix(base_lines) == SubSeq(base_lines, 1, Min(GeometryIndices(base_lines)) - 1)

\* a slip: base_lines[last_idx:], which keeps the last geometry line of the base
MergeSuffix_from_last(base_lines) ==
  SubSeq(base_lines, Max(GeometryIndices(base_lines)), Len(base_lines))

\* base_lines[last_idx + 1:]
MergeSuffix(base_lines) ==
  SubSeq(base_lines, Max(GeometryIndices(base_lines)) + 1, Len(base_lines))

\* the branch taken when the base holds no geometry line
MergeAppend(base_lines, geometry_lines) ==
  (IF base_lines # <<>> /\ ~IsBlank(Last(base_lines))
   THEN Append(base_lines, EmptyLine) ELSE base_lines) \o geometry_lines

\* the branch that replaces the block from the first to the last geometry line
MergeReplace(base_lines, geometry_lines) ==
  LET prefix == MergePrefix(base_lines)
      suffix == MergeSuffix(base_lines)
      head == IF prefix # <<>> /\ ~IsBlank(Last(prefix))
              THEN Append(prefix, EmptyLine) ELSE prefix
      mid == head \o geometry_lines
  IN  IF suffix = <<>> THEN mid
      ELSE IF ~IsBlank(suffix[1]) /\ ~IsBlank(Last(geometry_lines))
      THEN Append(mid, EmptyLine) \o suffix
      ELSE mid \o suffix

merge_geometry_with_existing(base_text, geometry_lines) ==
  LET base_lines == splitlines(base_text)
  IN  IF geometry_lines = <<>> THEN base_text
      ELSE IF GeometryIndices(base_lines) = {} THEN join(MergeAppend(base_lines, geometry_lines))
      ELSE join(MergeReplace(base_lines, geometry_lines))

(***************************************************************************)
(* mesh_to_vpg_text                                                        *)
(***************************************************************************)

\* None, where the code holds a str or None
None == <<>>

\* a slip: f"n{idx}", the position counted from 0
PosId_zero_based(idx) == MkId(FALSE, "num", idx)

\* f"n{idx + 1}", idx counted from 0
PosId(idx) == MkId(FALSE, "num", idx + 1)

\* v[node_id_layer].decode('utf-8').strip(), NoId when there is no layer
ReadNodeId(v, layer) == IF layer THEN v.id ELSE NoId

\* not (len(node_id) < 2 or node_id[0].lower() != 'n' or not node_id[1:].isdigit())
MatchesPattern(id) == id.p = "num"

\* one round of the loop over bm.verts
ScanVertex(v, layer, idx, st) ==
  LET raw == ReadNodeId(v, layer)
      missing == raw = NoId
      bad == ~missing /\ ~MatchesPattern(raw)
      node_id == IF missing THEN PosId(idx) ELSE IF bad THEN raw ELSE Lower(raw)
      needs == \/ missing
               \/ (~missing /\ ~bad /\ raw # Lower(raw))
               \/ node_id \in st.seen
               \/ node_id # PosId(idx)
  IN  [numeric_pattern |-> st.numeric_pattern /\ ~bad,
       needs_renumber |-> st.needs_renumber \/ needs,
       seen |-> st.seen \cup {node_id},
       entries |-> Append(st.entries, node_id)]

RECURSIVE ScanVertices(_, _, _, _)
ScanVertices(verts, layer, idx, st) ==
  IF idx >= Len(verts) THEN st
  ELSE ScanVertices(verts, layer, idx + 1, ScanVertex(verts[idx + 1], layer, idx, st))

\* vertex_entries, numeric_pattern and needs_renumber after the first loop
vertex_scan(mesh) ==
  ScanVertices(mesh.verts, mesh.layer, 0,
               [numeric_pattern |-> TRUE, needs_renumber |-> FALSE,
                seen |-> {}, entries |-> <<>>])

\* if numeric_pattern and needs_renumber
Renumbers(mesh) ==
  LET st == vertex_scan(mesh) IN st.numeric_pattern /\ st.needs_renumber

\* the ids of vertex_entries when the vertex lines are written
EmittedIds(mesh) ==
  IF Renumbers(mesh) THEN [i \in 1..Len(mesh.verts) |-> PosId(i - 1)]
  ELSE vertex_scan(mesh).entries

\* the vertices afterwards: the renumbering writes the layers of the edit
\* bmesh; outside edit mode it writes a copy (bmesh.new, from_mesh) that is
\* freed without to_mesh
RestampedVerts(mesh, edit_mode) ==
  IF Renumbers(mesh) /\ mesh.layer /\ edit_mode
  THEN [i \in 1..Len(mesh.verts) |-> [mesh.verts[i] EXCEPT !.id = PosId(i - 1)]]
  ELSE mesh.verts

vertex_lines(mesh) ==
  LET ids == EmittedIds(mesh)
  IN  [i \in 1..Len(mesh.verts) |->
         VertexLine(ids[i], "ok", FormatFloat(mesh.verts[i].co))]

\* a slip: the indices written 0-based ({a} {b} {c})
FanLines_zero_based(f, tri_counter) ==
  [j \in 1..(Len(f) - 2) |->
     FaceLine(tri_counter + j - 1, <<f[1], f[j + 1], f[j + 2]>>, FALSE)]

\* a slip: a triangle strip, (v[j-1], v[j], v[j+1]) where the fan has
\* (v[0], v[j], v[j+1])
FanLines_strip(f, tri_counter) ==
  [j \in 1..(Len(f) - 2) |->
     FaceLine(tri_counter + j - 1, <<f[j] + 1, f[j + 1] + 1, f[j + 2] + 1>>, FALSE)]

\* the triangle fan of one face, tagged from tri_counter on
FanLines(f, tri_counter) ==
  [j \in 1..(Len(f) - 2) |->
     FaceLine(tri_counter + j - 1, <<f[1] + 1, f[j + 1] + 1, f[j + 2] + 1>>, FALSE)]

RECURSIVE face_lines(_, _)
face_lines(faces, tri_counter) ==
  IF faces = <<>> THEN <<>>
  ELSE IF Len(Head(faces)) < 3 THEN face_lines(Tail(faces), tri_counter)
  ELSE FanLines(Head(faces), tri_counter)
         \o face_lines(Tail(faces), tri_counter + Len(Head(faces)) - 2)

\* lines
geometry_lines_of(mesh) == vertex_lines(mesh) \o face_lines(mesh.faces, 1)

\* [text |-> the str returned, verts |-> the vertices with their ids afterwards]
mesh_to_vpg_text(mesh, edit_mode, base_text) ==
  LET lines == geometry_lines_of(mesh)
  IN  [text |-> IF base_text # None /\ Truthy(base_text)
                THEN merge_geometry_with_existing(base_text, lines)
                ELSE join(lines),
       verts |-> RestampedVerts(mesh, edit_mode)]

(***************************************************************************)
(* The add-on in Blender: objects, meshes, text datablocks, scene           *)
(* properties, the watcher's globals                                       *)
(***************************************************************************)

\* the mesh objects that can exist (obj.name)
Objs == {"o1", "o2", "m.1", "m_1"}

\* context.active_object is None, space.text is None
NoObject == "none"

NoText == "none"

\* mesh.get(MESH_VPG_FILE_PATH) is None
NoPath == ""

\* a file on disk that is imported
FileA == "/d1/a.vpg"

\* os.path.basename
to_short_filename(filename) ==
  CASE filename = "/d1/a.vpg" -> "a.vpg"
    [] filename = "/d2/a.vpg" -> "a.vpg"
    [] OTHER -> filename

\* f"{bpy.path.clean_name(obj.name)}.vpg": clean_name puts "_" for every
\* character that is no letter and no digit
vpg_filename(o) ==
  CASE o = "o1" -> "o1.vpg"
    [] o = "o2" -> "o2.vpg"
    [] o = "m.1" -> "m_1.vpg"
    [] o = "m_1" -> "m_1.vpg"
    [] OTHER -> "mesh.vpg"

\* a dict
EmptyDict == [x \in {} |-> None]

Put(d, key, value) == [x \in (DOMAIN d) \cup {key} |-> IF x = key THEN value ELSE d[x]]

Del(d, key) == [x \in (DOMAIN d) \ {key} |-> d[x]]

\* a dict kept as a scene property: not in the scene until first assigned
AbsentDict == [present |-> FALSE, d |-> EmptyDict]

\* obj.data of an object that does not exist
DeadMesh ==
  [verts |-> <<>>, faces |-> <<>>, layer |-> FALSE, path |-> NoPath, data |-> None]

\* all orders in which a set can be iterated
Orders(S) == {q \in [1..Cardinality(S) -> S] : Range(q) = S}

(***************************************************************************)
(* utils.py, text_editor.py: the document store                            *)
(***************************************************************************)

HISTORY_STACK_SIZE == 250

\* utils.read_file: the content, None when the file cannot be opened
read_file(s, filepath) ==
  IF filepath \in DOMAIN s.disk THEN s.disk[filepath] ELSE None

write_int_file(s, filename, text) ==
  LET short_filename == to_short_filename(filename)
  IN  [s EXCEPT
         !.short_to_full = [present |-> TRUE, d |-> Put(@.d, short_filename, filename)],
         !.texts = Put(@, short_filename, text),
         !.prev_texts =
            [present |-> TRUE,
             d |-> IF short_filename \in DOMAIN @.d THEN @.d
                   ELSE Put(@.d, short_filename, None)]]

\* a slip: the text datablock is not removed
remove_int_file_keeps_text(s, filename) ==
  LET short_filename == to_short_filename(filename)
  IN  [s EXCEPT
         !.prev_texts = [@ EXCEPT !.d = Del(@, short_filename)],
         !.short_to_full = [@ EXCEPT !.d = Del(@, short_filename)]]

remove_int_file(s, filename) ==
  LET short_filename == to_short_filename(filename)
  IN  [s EXCEPT
         !.texts = Del(@, short_filename),
         !.space_text = IF @ = short_filename THEN NoText ELSE @,
         !.prev_texts = [@ EXCEPT !.d = Del(@, short_filename)],
         !.short_to_full = [@ EXCEPT !.d = Del(@, short_filename)]]

read_int_file(s, filename) ==
  IF to_short_filename(filename) \in DOMAIN s.texts
  THEN s.texts[to_short_filename(filename)] ELSE None

\* the text editor area shows the document
show_int_file(s, filename) ==
  IF to_short_filename(filename) \in DOMAIN s.texts
  THEN [s EXCEPT !.space_text = to_short_filename(filename)] ELSE s

\* history_stack.insert(history_stack_idx, entry) and the slice that follows,
\* idx counted from 0
InsertAndCut(stack, idx, entry) ==
  IF idx <= Len(stack) THEN Append(SubSeq(stack, 1, idx), entry)
  ELSE Append(stack, entry)

\* a slip: history_stack.pop(), which removes the entry just recorded
PopOverflow_newest(stack) == IF Len(stack) > HISTORY_STACK_SIZE THEN Front(stack) ELSE stack

\* if len(history_stack) > HISTORY_STACK_SIZE: history_stack.pop(0)
PopOverflow(stack) == IF Len(stack) > HISTORY_STACK_SIZE THEN Tail(stack) ELSE stack

\* the block under "if not undoing_redoing and file_changed"
record_history(s, short_filename, curr_file_text) ==
  [s EXCEPT
     !.history_stack_idx = @ + 1,
     !.history_stack =
        PopOverflow(InsertAndCut(@, s.history_stack_idx + 1,
                                 [short |-> short_filename, text |-> curr_file_text]))]

(***************************************************************************)
(* import_vpg.py: reimport_vpg, on_file_change                             *)
(***************************************************************************)

\* a slip: the bmesh is loaded from the mesh first (bm.from_mesh, as import_vpg
\* does), so the old vertices and faces stay under the new ones
reimport_vpg_onto_old(s, o, vpg_file_path, g) ==
  IF g.ok
  THEN [s EXCEPT
          !.active_object = o,
          !.edit_mode = FALSE,
          !.mesh[o] = [verts |-> s.mesh[o].verts \o g.verts,
                       faces |-> s.mesh[o].faces \o g.faces, layer |-> TRUE,
                       path |-> vpg_file_path,
                       data |-> read_file(s, vpg_file_path)]]
  ELSE [s EXCEPT !.active_object = o, !.edit_mode = FALSE]

\* the object is made active and leaves edit mode; the mesh is replaced by
\* the bmesh g that generate_mesh built, or left alone when it raised
reimport_vpg(s, o, vpg_file_path, g) ==
  IF g.ok
  THEN [s EXCEPT
          !.active_object = o,
          !.edit_mode = FALSE,
          !.mesh[o] = [verts |-> g.verts, faces |-> g.faces, layer |-> TRUE,
                       path |-> vpg_file_path,
                       data |-> read_file(s, vpg_file_path)]]
  ELSE [s EXCEPT !.active_object = o, !.edit_mode = FALSE]

\* the loop over vpg_collection.objects
RECURSIVE reimport_all(_, _, _, _)
reimport_all(s, objs, file_path, editor_text) ==
  IF objs = <<>> THEN s
  ELSE reimport_all(
         IF s.mesh[Head(objs)].path = file_path
         THEN reimport_vpg(s, Head(objs), file_path,
                           generate_mesh(parse_vpg_text(editor_text)))
         ELSE s,
         Tail(objs), file_path, editor_text)

\* order: the order in which vpg_collection.objects is iterated
on_file_change(s, file_path, order) ==
  IF ~s.vpg_collection.exists THEN s
  ELSE reimport_all(s, order, file_path, read_int_file(s, file_path))

\* check_open_int_file_for_changes: whether it gets as far as comparing the
\* text shown in the editor with the last known text
TextWatched(s) ==
  /\ s.prev_texts.present
  /\ s.space_text # NoText
  /\ s.space_text \in DOMAIN s.prev_texts.d
  /\ s.space_text \in DOMAIN s.short_to_full.d

\* curr_file_text != last_file_text
FileChanged(s) ==
  TextWatched(s) /\ s.texts[s.space_text] # s.prev_texts.d[s.space_text]

\* the block under "if curr_file_text != last_file_text"
text_changed(s, order) ==
  on_file_change([s EXCEPT !.prev_texts.d = Put(@, s.space_text, s.texts[s.space_text])],
                 s.short_to_full.d[s.space_text], order)

check_open_int_file_for_changes(s, undoing_redoing, order) ==
  IF ~FileChanged(s) THEN s
  ELSE IF undoing_redoing THEN text_changed(s, order)
  ELSE record_history(text_changed(s, order), s.space_text, s.texts[s.space_text])

(***************************************************************************)
(* text_editor.py: on_undo_redo                                            *)
(***************************************************************************)

\* utils.clamp
clamp(value, min_value, max_value) == Max({min_value, Min({value, max_value})})

\* history_stack_idx once it is moved and clamped
undo_redo_cursor(s, undoing) ==
  clamp(IF undoing THEN s.history_stack_idx - 1 ELSE s.history_stack_idx + 1,
        0, Len(s.history_stack) - 1)

\* the loop over entry.items() and the call that follows it; idx is the new
\* cursor, counted from 0
replay_entry(s, idx, entry, order) ==
  IF entry.short \notin DOMAIN s.texts THEN [s EXCEPT !.history_stack_idx = idx]
  ELSE check_open_int_file_for_changes(
         [s EXCEPT !.history_stack_idx = idx, !.texts[entry.short] = entry.text],
         TRUE, order)

on_undo_redo(s, undoing, order) ==
  IF ~s.short_to_full.present \/ ~s.prev_texts.present THEN s
  ELSE IF s.history_stack_idx = -1 THEN s
  ELSE replay_entry(s, undo_redo_cursor(s, undoing),
                    s.history_stack[undo_redo_cursor(s, undoing) + 1], order)

(***************************************************************************)
(* mesh_watcher.py                                                         *)
(***************************************************************************)

_collect_active_vpg_paths(s) ==
  {s.mesh[o].path : o \in {x \in s.objects : s.mesh[x].path # NoPath}}

\* the loop over items, paths being the full paths found orphaned
RECURSIVE remove_each(_, _)
remove_each(s, paths) ==
  IF paths = {} THEN s
  ELSE remove_each(remove_int_file(s, CHOOSE x \in paths : TRUE),
                   paths \ {CHOOSE x \in paths : TRUE})

_cleanup_orphan_internal_texts(s) ==
  IF ~s.short_to_full.present \/ DOMAIN s.short_to_full.d = {} THEN s
  ELSE remove_each(s, {s.short_to_full.d[k] :
                         k \in {x \in DOMAIN s.short_to_full.d :
                                  s.short_to_full.d[x] \notin _collect_active_vpg_paths(s)}})

\* obj.mode == 'EDIT'
InEditMode(s, o) == s.active_object = o /\ s.edit_mode

\* the part of _sync_object_text after new_text is computed; r is what
\* mesh_to_vpg_text returned and did to the node ids
sync_text_written(s, o, old_text, r) ==
  IF r.text = old_text THEN [s EXCEPT !.mesh[o].verts = r.verts]
  ELSE show_int_file(
         [write_int_file([s EXCEPT !.mesh[o].verts = r.verts,
                                   !.mesh[o].data = r.text],
                         s.mesh[o].path, r.text)
            EXCEPT !.prev_texts.d = Put(@, to_short_filename(s.mesh[o].path), r.text)],
         s.mesh[o].path)

\* base_text, which is old_text as well
sync_base_text(s, o) ==
  IF s.mesh[o].data # None THEN s.mesh[o].data
  ELSE read_int_file(s, s.mesh[o].path)

_sync_object_text(s, o) ==
  IF s.mesh[o].path = NoPath THEN s
  ELSE sync_text_written(s, o, sync_base_text(s, o),
                         mesh_to_vpg_text(s.mesh[o], InEditMode(s, o),
                                          sync_base_text(s, o)))

RECURSIVE sync_each(_, _)
sync_each(s, order) ==
  IF order = <<>> THEN s
  ELSE sync_each(IF Head(order) \in s.objects
                 THEN _sync_object_text(s, Head(order)) ELSE s,
                 Tail(order))

\* order: the order in which the set to_process is iterated
export_modified_objects(s, order) ==
  sync_each([s EXCEPT !.modified_objects = {}], order)

\* the flags are reset once the export is made
flags_cleared(s) == [s EXCEPT !.do_export = FALSE, !.force_do_export = FALSE]

\* the loop over depsgraph.updates; updates: the objects reported as updated
mark_updates(s, updates) ==
  IF {o \in updates \cap s.objects : s.mesh[o].path # NoPath} = {} THEN s
  ELSE [s EXCEPT
          !.modified_objects =
             @ \cup {o \in updates \cap s.objects : s.mesh[o].path # NoPath},
          !.do_export = TRUE,
          !.force_do_export = TRUE]

export_if_marked(s, order) ==
  IF s.force_do_export \/ s.do_export
  THEN flags_cleared(export_modified_objects(s, order))
  ELSE s

_depsgraph_handler(s, updates, order) ==
  export_if_marked(mark_updates(s, updates), order)

\* "Fallback: actively compare active object"
sync_active_object(s) ==
  IF /\ s.active_object # NoObject
     /\ s.edit_mode
     /\ s.mesh[s.active_object].path # NoPath
  THEN _sync_object_text(s, s.active_object)
  ELSE s

\* a slip: the fallback check of the active object is made before the marked
\* objects are exported
poll_active_operators_fallback_first(s, order) ==
  _cleanup_orphan_internal_texts(export_if_marked(sync_active_object(s), order))

poll_active_operators(s, order) ==
  _cleanup_orphan_internal_texts(sync_active_object(export_if_marked(s, order)))

(***************************************************************************)
(* import_vpg.py: auto_convert_new_imported_meshes, the import operator     *)
(***************************************************************************)

\* one object without a path; r is what mesh_to_vpg_text returned
convert_object(s, o, r) ==
  IF ~Truthy(r.text) THEN [s EXCEPT !.mesh[o].verts = r.verts]
  ELSE [write_int_file([s EXCEPT !.mesh[o].verts = r.verts],
                       vpg_filename(o), r.text)
          EXCEPT !.mesh[o].data = r.text,
                 !.mesh[o].path = vpg_filename(o),
                 !.vpg_collection.objects = @ \cup {o}]

RECURSIVE convert_each(_, _)
convert_each(s, order) ==
  IF order = <<>> THEN s
  ELSE convert_each(
         IF s.mesh[Head(order)].path # NoPath THEN s
         ELSE convert_object(s, Head(order),
                mesh_to_vpg_text(s.mesh[Head(order)],
                                 InEditMode(s, Head(order)), None)),
         Tail(order))

\* order: the order of context.scene.objects
auto_convert_new_imported_meshes(s, order) ==
  convert_each([s EXCEPT !.vpg_collection.exists = TRUE], order)

\* import_vpg: a new object o holding the bmesh g that generate_mesh built;
\* when generate_mesh raised, the object made is in no collection and has no
\* geometry and no path, and is left out here
import_vpg(s, o, vpg_file_path, g) ==
  IF g.ok
  THEN [s EXCEPT
          !.objects = @ \cup {o},
          !.mesh[o] = [verts |-> g.verts, faces |-> g.faces, layer |-> TRUE,
                       path |-> vpg_file_path,
                       data |-> read_file(s, vpg_file_path)],
          !.vpg_collection = [exists |-> TRUE, objects |-> @.objects \cup {o}],
          !.active_object = o,
          !.edit_mode = FALSE]
  ELSE s

\* a slip: no test "if not vertices"
import_parsed_unchecked(s, o, filepath, doc) ==
  write_int_file(import_vpg(s, o, filepath, generate_mesh(doc)),
                 filepath, s.disk[filepath])

\* execute once the file is parsed into doc
import_parsed(s, o, filepath, doc) ==
  IF doc.verts = <<>> THEN s
  ELSE write_int_file(import_vpg(s, o, filepath, generate_mesh(doc)),
                      filepath, s.disk[filepath])

\* VPG_EDITOR_OT_import_vpg.execute on a file that exists
import_execute(s, o, filepath) ==
  import_parsed(s, o, filepath, parse_vpg_text(s.disk[filepath]))

(***************************************************************************)
(* State                                                                   *)
(***************************************************************************)

VARIABLES
  \* the codec on its own: the arguments and results of the pure functions
  base_text,         \* _merge_geometry_with_existing: base_text
  geometry_lines,    \* _merge_geometry_with_existing: geometry_lines
  merged,            \* its result, None before the call
  filetext,          \* parse_vpg_text: filetext
  bm,                \* the bmesh built by generate_mesh and edited since
  vpg_text,          \* mesh_to_vpg_text: its result, None before the call
  pc,                \* which of these calls has been made last
  \* the add-on in Blender
  objects,           \* bpy.data.objects: the names of the mesh objects
  mesh,              \* obj.data of each: verts, faces, the node id layer,
                     \* mesh[MESH_VPG_FILE_PATH] (path), mesh[MESH_DATA] (data)
  vpg_collection,    \* bpy.data.collections.get('VPG Objects')
  active_object,     \* context.active_object
  edit_mode,         \* active_object.mode == 'EDIT'
  texts,             \* bpy.data.texts: short name -> content
  prev_texts,        \* scene[SCENE_PREV_TEXTS]
  short_to_full,     \* scene[SCENE_SHORT_TO_FULL_FILENAME]
  space_text,        \* the text shown in the text editor area
  history_stack,     \* text_editor.history_stack
  history_stack_idx, \* text_editor.history_stack_idx
  modified_objects,  \* mesh_watcher._modified_objects
  do_export,         \* mesh_watcher._do_export
  force_do_export,   \* mesh_watcher._force_do_export
  disk,              \* the .vpg files on disk: path -> content
  user_ops,          \* how many operations the user has made
  \* Blender as the host of the callbacks
  timers,            \* bpy.app.timers: the callbacks that will be called again
  handler_raised,    \* an exception left the depsgraph_update_post handler
  last_fault,        \* what raised inside the callback that ran last
  syncing            \* the calls of _sync_object_text that have not returned

codec_vars == <<base_text, geometry_lines, merged, filetext, bm, vpg_text, pc>>

sys_vars ==
  <<objects, mesh, vpg_collection, active_object, edit_mode, texts, prev_texts,
    short_to_full, space_text, history_stack, history_stack_idx,
    modified_objects, do_export, force_do_export, disk, user_ops,
    timers, handler_raised, last_fault, syncing>>

\* what the host knows of the callbacks
host_vars == <<timers, handler_raised, last_fault, syncing>>

vars == <<codec_vars, sys_vars>>

\* the add-on's state as one value, as the handlers above take it
State ==
  [objects |-> objects, mesh |-> mesh, vpg_collection |-> vpg_collection,
   active_object |-> active_object, edit_mode |-> edit_mode, texts |-> texts,
   prev_texts |-> prev_texts, short_to_full |-> short_to_full,
   space_text |-> space_text, history_stack |-> history_stack,
   history_stack_idx |-> history_stack_idx,
   modified_objects |-> modified_objects, do_export |-> do_export,
   force_do_export |-> force_do_export, disk |-> disk]

\* the state after a handler returned s
Becomes(s) ==
  /\ objects' = s.objects
  /\ mesh' = s.mesh
  /\ vpg_collection' = s.vpg_collection
  /\ active_object' = s.active_object
  /\ edit_mode' = s.edit_mode
  /\ texts' = s.texts
  /\ prev_texts' = s.prev_texts
  /\ short_to_full' = s.short_to_full
  /\ space_text' = s.space_text
  /\ history_stack' = s.history_stack
  /\ history_stack_idx' = s.history_stack_idx
  /\ modified_objects' = s.modified_objects
  /\ do_export' = s.do_export
  /\ force_do_export' = s.force_do_export
  /\ disk' = s.disk

\* a new scene after the add-on is registered: nothing imported, no document,
\* an empty history
Registered ==
  [objects |-> {}, mesh |-> [o \in Objs |-> DeadMesh],
   vpg_collection |-> [exists |-> FALSE, objects |-> {}],
   active_object |-> NoObject, edit_mode |-> FALSE, texts |-> EmptyDict,
   prev_texts |-> AbsentDict, short_to_full |-> AbsentDict,
   space_text |-> NoText, history_stack |-> <<>>, history_stack_idx |-> -1,
   modified_objects |-> {}, do_export |-> FALSE, force_do_export |-> FALSE,
   disk |-> EmptyDict]

\* the state is s
Starts(s) ==
  /\ objects = s.objects
  /\ mesh = s.mesh
  /\ vpg_collection = s.vpg_collection
  /\ active_object = s.active_object
  /\ edit_mode = s.edit_mode
  /\ texts = s.texts
  /\ prev_texts = s.prev_texts
  /\ short_to_full = s.short_to_full
  /\ space_text = s.space_text
  /\ history_stack = s.history_stack
  /\ history_stack_idx = s.history_stack_idx
  /\ modified_objects = s.modified_objects
  /\ do_export = s.do_export
  /\ force_do_export = s.force_do_export
  /\ disk = s.disk

\* the callbacks operators.register and mesh_watcher.register hand to
\* bpy.app.timers
TimerNames ==
  {"poll_active_operators", "check_text_file_changes", "check_imported_meshes"}

\* no callback is running and none has raised
HostQuiet ==
  /\ handler_raised = FALSE
  /\ last_fault = "none"
  /\ syncing = <<>>

\* the add-on is not running
SysIdle == Starts(Registered) /\ user_ops = 0 /\ timers = {} /\ HostQuiet

\* register() has been called
AddonRegistered == timers = TimerNames /\ HostQuiet

\* a bmesh with no vertex, before generate_mesh
NoMesh == [verts |-> <<>>, faces |-> <<>>, layer |-> FALSE]

(***************************************************************************)
(* Bounds and input sets                                                   *)
(***************************************************************************)

\* longest base text (in lines) given to the merge
MaxBaseLines == 4

\* longest list of geometry lines given to the merge
MaxGeomLines == 2

\* longest text (in lines) given to the parser
MaxTextLines == 4

\* most vertices of a bmesh under edit
MaxVerts == 3

\* all sequences over S of length lo..hi
SeqsOf(S, lo, hi) == UNION {[1..n -> S] : n \in lo..hi}

n1 == MkId(FALSE, "num", 1)

n2 == MkId(FALSE, "num", 2)

n3 == MkId(FALSE, "num", 3)

\* the lines base texts are made of
BaseAlphabet ==
  {EmptyLine, WsLine, Comment(1), Opaque(1),
   VertexLine(n1, "ok", MkCo(0, FALSE)), FaceLine(1, <<1, 1, 1>>, FALSE)}

\* the lines mesh_to_vpg_text hands to the merge
GeomAlphabet ==
  {VertexLine(n1, "ok", MkCo(1, TRUE)), FaceLine(1, <<1, 2, 3>>, FALSE)}

\* the lines the parsed texts are made of
TextAlphabet ==
  {Comment(1), EmptyLine,
   VertexLine(n1, "ok", MkCo(0, FALSE)),
   VertexLine(n2, "ok", MkCo(2, TRUE)),
   VertexLine(n3, "ok", MkCo(1, TRUE)),
   VertexLine(MkId(TRUE, "num", 2), "ok", MkCo(1, TRUE)),
   VertexLine(MkId(FALSE, "alpha", 1), "ok", MkCo(1, TRUE)),
   VertexLine(n3, "short", MkCo(0, TRUE)),
   FaceLine(1, <<1, 2, 3>>, FALSE),
   FaceLine(2, <<1, 1, 2>>, FALSE),
   FaceLine(7, <<0, 1, 4>>, FALSE)}

\* the positions a vertex is moved to
MoveCoords == {0, 1}

(***************************************************************************)
(* The merge on its own                                                    *)
(***************************************************************************)

CodecIdle ==
  /\ filetext = EmptyText
  /\ bm = NoMesh
  /\ vpg_text = None

MergeIdle ==
  /\ base_text = EmptyText
  /\ geometry_lines = <<>>
  /\ merged = None

InitMerge ==
  /\ base_text \in SeqsOf(BaseAlphabet, 1, MaxBaseLines)
  /\ geometry_lines \in SeqsOf(GeomAlphabet, 0, MaxGeomLines)
  /\ merged = None
  /\ pc = "start"
  /\ CodecIdle
  /\ SysIdle

\* result = _merge_geometry_with_existing(base_text, lines)
Merge ==
  /\ pc = "start"
  /\ merged' = merge_geometry_with_existing(base_text, geometry_lines)
  /\ pc' = "merged"
  /\ UNCHANGED <<base_text, geometry_lines, filetext, bm, vpg_text, sys_vars>>

\* the next tick: the text written is the base text of the next merge of the
\* same lines (_sync_object_text, base_text = stored_text)
Remerge ==
  /\ pc \in {"merged", "remerged"}
  /\ merged # base_text
  /\ base_text' = merged
  /\ merged' = merge_geometry_with_existing(merged, geometry_lines)
  /\ pc' = "remerged"
  /\ UNCHANGED <<geometry_lines, filetext, bm, vpg_text, sys_vars>>

NextMerge == Merge \/ Remerge

SpecMerge == InitMerge /\ [][NextMerge]_vars

(***************************************************************************)
(* Claims about the merge                                                  *)
(***************************************************************************)

\* the lines before the first geometry line
RECURSIVE Header(_)
Header(ls) ==
  IF ls = <<>> THEN <<>>
  ELSE IF IsGeometryLine(Head(ls)) THEN <<>>
  ELSE <<Head(ls)>> \o Header(Tail(ls))

\* the lines after the last geometry line
RECURSIVE Footer(_)
Footer(ls) ==
  IF ls = <<>> THEN <<>>
  ELSE IF IsGeometryLine(Last(ls)) THEN <<>>
  ELSE Append(Footer(Front(ls)), Last(ls))

HasGeometryLine(ls) == \E i \in 1..Len(ls) : IsGeometryLine(ls[i])

\* nothing, or one blank separator line
Separators == {<<>>, <<EmptyLine>>}

\* C7: for a base text with at least one geometry line and a non-empty list
\* of new geometry lines, the merged text is the lines before the first
\* geometry line of the base, at most one blank separator, the new geometry
\* lines, at most one blank separator, and the lines after the last geometry
\* line of the base, each part unchanged and in this order.
C7_MergePreservesHeaders ==
  (merged # None /\ geometry_lines # <<>> /\ HasGeometryLine(splitlines(base_text)))
    => \E a \in Separators, b \in Separators :
         merged = Header(splitlines(base_text)) \o a \o geometry_lines \o b
                    \o Footer(splitlines(base_text))

\* a merge that replaced a geometry block standing between a header and a
\* footer
C7_Witness ==
  /\ pc = "merged"
  /\ geometry_lines # <<>>
  /\ HasGeometryLine(splitlines(base_text))
  /\ Header(splitlines(base_text)) # <<>>
  /\ Footer(splitlines(base_text)) # <<>>
  /\ merged # base_text

\* C8: every opaque line of the base text is still a line of the merged
\* text, wherever it stands in the base text.
C8_OpaqueLinesKept ==
  merged # None =>
    \A i \in 1..Len(base_text) : IsOpaque(base_text[i]) => base_text[i] \in Range(merged)

(***************************************************************************)
(* The codec on its own: parse, build, move vertices, serialize            *)
(***************************************************************************)

InitCodec ==
  /\ filetext \in SeqsOf(TextAlphabet, 1, MaxTextLines)
  /\ bm = NoMesh
  /\ vpg_text = None
  /\ pc = "text"
  /\ MergeIdle
  /\ SysIdle

\* parse_vpg_text, then generate_mesh on a new bmesh (reimport_vpg)
CodecBuild ==
  /\ pc = "text"
  /\ LET g == generate_mesh(parse_vpg_text(filetext))
     IN  IF g.ok
         THEN /\ bm' = [verts |-> g.verts, faces |-> g.faces, layer |-> TRUE]
              /\ pc' = "built"
         ELSE /\ bm' = bm
              /\ pc' = "failed"
  /\ UNCHANGED <<base_text, geometry_lines, merged, filetext, vpg_text, sys_vars>>

\* a geometry-side edit that changes the position of one vertex and nothing
\* else
CodecMove(i, c) ==
  /\ pc \in {"built", "moved"}
  /\ i \in 1..Len(bm.verts)
  /\ bm.verts[i].co # c
  /\ bm' = [bm EXCEPT !.verts[i].co = c]
  /\ pc' = "moved"
  /\ UNCHANGED <<base_text, geometry_lines, merged, filetext, vpg_text, sys_vars>>

\* vpg_text = mesh_to_vpg_text(mesh, obj), obj in edit mode or not
CodecSerialize(in_edit_mode) ==
  /\ pc \in {"built", "moved"}
  /\ LET r == mesh_to_vpg_text(bm, in_edit_mode, None)
     IN  /\ vpg_text' = r.text
         /\ bm' = [bm EXCEPT !.verts = r.verts]
  /\ pc' = IF pc = "built" THEN "out_built" ELSE "out_moved"
  /\ UNCHANGED <<base_text, geometry_lines, merged, filetext, sys_vars>>

NextCodec ==
  \/ CodecBuild
  \/ \E i \in 1..MaxVerts, c \in MoveCoords : CodecMove(i, c)
  \/ \E in_edit_mode \in BOOLEAN : CodecSerialize(in_edit_mode)

SpecCodec == InitCodec /\ [][NextCodec]_vars

(***************************************************************************)
(* Claims about the codec                                                  *)
(***************************************************************************)

\* the id tokens of the vertex lines of a text, in order
RECURSIVE IdTokens(_)
IdTokens(text) ==
  IF text = <<>> THEN <<>>
  ELSE IF Head(text).k = "n" THEN <<Head(text).id>> \o IdTokens(Tail(text))
  ELSE IdTokens(Tail(text))

\* the ids are n1, n2, ..., nK in position order
IsDense(ids) == \A i \in 1..Len(ids) : ids[i] = MkId(FALSE, "num", i)

AllNumeric(ids) == \A i \in 1..Len(ids) : ids[i].p = "num"

ParsedIds == IdsOf(parse_vpg_text(filetext).verts)

ReparsedIds == IdsOf(parse_vpg_text(vpg_text).verts)

SameFaces == parse_vpg_text(vpg_text).faces = parse_vpg_text(filetext).faces

\* C2 as stated: parsing the serialization of the geometry stamped from a
\* parsed text gives the same vertex ids in the same order and the same
\* faces, whatever the parsed ids are.
C2_RoundTrip ==
  pc = "out_built" => (ReparsedIds = ParsedIds /\ SameFaces)

\* C2 amended: the faces are the same; the ids are the same when the parsed
\* ids are n1..nK in position order or one of them does not match n<digits>;
\* otherwise the ids come back renumbered n1..nK by position.
C2_RoundTripAmended ==
  pc = "out_built" =>
    /\ SameFaces
    /\ Len(ReparsedIds) = Len(ParsedIds)
    /\ IF IsDense(ParsedIds) \/ ~AllNumeric(ParsedIds)
       THEN ReparsedIds = ParsedIds
       ELSE IsDense(ReparsedIds)

\* a round trip of three vertices and a face whose ids are kept although
\* they are not n1..nK
C2_Witness ==
  /\ pc = "out_built"
  /\ Len(ParsedIds) = 3
  /\ ~IsDense(ParsedIds)
  /\ ReparsedIds = ParsedIds
  /\ parse_vpg_text(filetext).faces # <<>>

\* C3: when the vertices hold the stamped ids n1..nK in position order,
\* serializing (after edits that only moved vertices) emits exactly these
\* ids and leaves the stamped ids as they are.
C3_IdentityStability ==
  [][(/\ pc \in {"built", "moved"}
      /\ pc' \in {"out_built", "out_moved"}
      /\ bm.layer
      /\ IsDense(IdsOf(bm.verts)))
       => (/\ IdTokens(vpg_text') = IdsOf(bm.verts)
           /\ IdsOf(bm'.verts) = IdsOf(bm.verts))]_vars

\* a serialization of two or more vertices with dense ids, one of them moved
C3_Witness ==
  /\ pc = "out_moved"
  /\ Len(bm.verts) >= 2
  /\ IsDense(IdsOf(bm.verts))
  /\ IdTokens(vpg_text) = IdsOf(bm.verts)
  /\ bm.verts # StampVerts(parse_vpg_text(filetext).verts)

(***************************************************************************)
(* The add-on at work: the user's operations and the three timers          *)
(***************************************************************************)

\* the most vertices a mesh is given by the user
MaxMeshVerts == 3

\* the user makes this many operations
MaxUserOps == 5

\* "# c\nn1 0 0 0\nn2 1.0 1.0 1.0\n"
FileAText ==
  <<Comment(1), VertexLine(n1, "ok", MkCo(0, FALSE)),
    VertexLine(n2, "ok", MkCo(1, TRUE)), EmptyLine>>

\* the files that exist
Files == [x \in {FileA} |-> FileAText]

\* what the user makes of a document in the text editor
EditTexts ==
  { \* a vertex moved
    <<Comment(1), VertexLine(n1, "ok", MkCo(1, TRUE)),
      VertexLine(n2, "ok", MkCo(1, TRUE)), EmptyLine>>,
    \* a third vertex and a triangle
    <<VertexLine(n1, "ok", MkCo(0, TRUE)), VertexLine(n2, "ok", MkCo(1, TRUE)),
      VertexLine(n3, "ok", MkCo(0, TRUE)), FaceLine(1, <<1, 2, 3>>, FALSE)>>,
    \* a face that names a vertex twice
    <<VertexLine(n1, "ok", MkCo(0, TRUE)), VertexLine(n2, "ok", MkCo(1, TRUE)),
      FaceLine(1, <<1, 1, 2>>, FALSE)>>,
    \* the vertex lines swapped
    <<VertexLine(n2, "ok", MkCo(1, TRUE)), VertexLine(n1, "ok", MkCo(0, TRUE))>>,
    \* every geometry line deleted
    <<Comment(1)>> }

\* where a vertex is put
Positions == {0, 1}

\* the names new objects get
NewNames == {"o1"}

Init ==
  /\ MergeIdle
  /\ CodecIdle
  /\ pc = "running"
  /\ Starts([Registered EXCEPT !.disk = Files])
  /\ user_ops = 0
  /\ AddonRegistered

\* a handler runs and leaves s
Run(s) ==
  /\ pc = "running"
  /\ Becomes(s)
  /\ UNCHANGED <<codec_vars, user_ops, host_vars>>

\* the user makes an operation that leaves s
UserOp(s) ==
  /\ pc = "running"
  /\ user_ops < MaxUserOps
  /\ Becomes(s)
  /\ user_ops' = user_ops + 1
  /\ UNCHANGED <<codec_vars, host_vars>>

\* File > Import > VPG on a file that exists; o is the name the object gets
UserImport(o, filepath) ==
  /\ o \notin objects
  /\ filepath \in DOMAIN disk
  /\ ~edit_mode
  /\ UserOp(import_execute(State, o, filepath))

\* Add > Mesh: an object with n vertices that never carried a node id
UserAddMesh(o, n) ==
  /\ o \notin objects
  /\ ~edit_mode
  /\ UserOp([State EXCEPT
               !.objects = @ \cup {o},
               !.mesh[o] = [DeadMesh EXCEPT
                              !.verts = [i \in 1..n |-> [id |-> NoId, co |-> 0]]],
               !.active_object = o])

\* the object is deleted in the viewport
UserDeleteObject(o) ==
  /\ o \in objects
  /\ ~edit_mode
  /\ UserOp([State EXCEPT
               !.objects = @ \ {o},
               !.mesh[o] = DeadMesh,
               !.vpg_collection.objects = @ \ {o},
               !.active_object = IF @ = o THEN NoObject ELSE @])

\* the object is selected and Tab pressed
UserEnterEditMode(o) ==
  /\ o \in objects
  /\ ~edit_mode
  /\ UserOp([State EXCEPT !.active_object = o, !.edit_mode = TRUE])

UserLeaveEditMode ==
  /\ edit_mode
  /\ UserOp([State EXCEPT !.edit_mode = FALSE])

\* the faces left, and their indices, once vertex i (from 1) is gone
FacesWithout(faces, i) ==
  LET kept == SelectSeq(faces, LAMBDA f : (i - 1) \notin Range(f))
  IN  [j \in 1..Len(kept) |->
         [k \in 1..Len(kept[j]) |->
            IF kept[j][k] > i - 1 THEN kept[j][k] - 1 ELSE kept[j][k]]]

\* G: a vertex of the mesh in edit mode is moved
UserMoveVertex(i, c) ==
  /\ edit_mode
  /\ i \in 1..Len(mesh[active_object].verts)
  /\ mesh[active_object].verts[i].co # c
  /\ UserOp([State EXCEPT !.mesh[active_object].verts[i].co = c])

\* a vertex is added to the mesh in edit mode: its node id layer is empty
UserAddVertex(c) ==
  /\ edit_mode
  /\ Len(mesh[active_object].verts) < MaxMeshVerts
  /\ UserOp([State EXCEPT
               !.mesh[active_object].verts = Append(@, [id |-> NoId, co |-> c])])

\* X: a vertex of the mesh in edit mode is deleted, and its faces with it
UserDeleteVertex(i) ==
  /\ edit_mode
  /\ i \in 1..Len(mesh[active_object].verts)
  /\ UserOp([State EXCEPT
               !.mesh[active_object].verts =
                  SubSeq(@, 1, i - 1) \o SubSeq(@, i + 1, Len(@)),
               !.mesh[active_object].faces = FacesWithout(@, i)])

\* the user types in a document
UserEditText(short, text) ==
  /\ short \in DOMAIN texts
  /\ texts[short] # text
  /\ UserOp([State EXCEPT !.texts[short] = text])

\* the user opens a document in the text editor
UserShowText(short) ==
  /\ short \in DOMAIN texts
  /\ space_text # short
  /\ UserOp([State EXCEPT !.space_text = short])

\* bpy.app.handlers.depsgraph_update_post, reporting an update of o
DepsgraphUpdate(o) ==
  /\ o \in objects
  /\ \E order \in Orders(modified_objects \cup {o}) :
       Run(_depsgraph_handler(State, {o}, order))

\* the timer of mesh_watcher.poll_active_operators
PollTick ==
  \E order \in Orders(modified_objects) :
    Run(poll_active_operators(State, order))

\* the timer of operators.check_text_file_changes
TextTick ==
  \E order \in Orders(vpg_collection.objects) :
    Run(check_open_int_file_for_changes(State, FALSE, order))

\* the timer of operators.check_imported_meshes
AutoTick ==
  \E order \in Orders(objects) :
    Run(auto_convert_new_imported_meshes(State, order))

Next ==
  \/ \E o \in NewNames, filepath \in DOMAIN Files : UserImport(o, filepath)
  \/ \E o \in NewNames, n \in 0..2 : UserAddMesh(o, n)
  \/ \E o \in Objs : UserDeleteObject(o)
  \/ \E o \in Objs : UserEnterEditMode(o)
  \/ UserLeaveEditMode
  \/ \E i \in 1..MaxMeshVerts, c \in Positions : UserMoveVertex(i, c)
  \/ \E c \in Positions : UserAddVertex(c)
  \/ \E i \in 1..MaxMeshVerts : UserDeleteVertex(i)
  \/ \E short \in {"a.vpg", "o1.vpg", "o2.vpg"}, text \in EditTexts :
       UserEditText(short, text)
  \/ \E short \in {"a.vpg", "o1.vpg", "o2.vpg"} : UserShowText(short)
  \/ \E o \in Objs : DepsgraphUpdate(o)
  \/ PollTick
  \/ TextTick
  \/ AutoTick

Spec == Init /\ [][Next]_vars

(***************************************************************************)
(* Claims about the add-on at work                                         *)
(***************************************************************************)

\* o is a live object linked to a document
Linked(o) == o \in objects /\ mesh[o].path # NoPath

\* the document of o, by its short name
DocOf(o) == to_short_filename(mesh[o].path)

\* the document of o exists and holds the text of the last reconciliation:
\* nothing was typed into it since
NoTextEdit(o) ==
  /\ DocOf(o) \in DOMAIN texts
  /\ texts[DocOf(o)] = mesh[o].data

\* C1: when _sync_object_text processes a linked object that is being edited
\* (edit mode, the mesh carrying the node id layer) and whose document was
\* not edited, parsing the document afterwards gives as many vertices as the
\* geometry has, with the same ids, also when the geometry has no vertex
\* left.
C1_TextFollowsGeometry ==
  \A o \in Objs :
    (Linked(o) /\ NoTextEdit(o) /\ mesh[o].layer /\ InEditMode(State, o))
      => IdsOf(parse_vpg_text(_sync_object_text(State, o).texts[DocOf(o)]).verts)
           = IdsOf(_sync_object_text(State, o).mesh[o].verts)

\* the path of the document shown in the text editor
ShownPath == short_to_full.d[space_text]

\* the live objects linked to a path
BoundTo(path) == {o \in objects : mesh[o].path = path}

\* what the text-watch tick leaves
AfterTextTick(order) == check_open_int_file_for_changes(State, FALSE, order)

\* parse(text buffer) of the document shown
ShownDoc == parse_vpg_text(texts[space_text])

\* the geometry of o in s is exactly the parsed document doc
IsRebuilt(s, o, doc) ==
  /\ IdsOf(s.mesh[o].verts) = IdsOf(doc.verts)
  /\ s.mesh[o].faces = doc.faces

\* the statement of C4 as it stands: whenever the tick finds the text shown
\* changed, every object linked to its path is afterwards exactly
\* parse(text buffer)
C4_TextTickRebuilds ==
  FileChanged(State) =>
    \A order \in Orders(vpg_collection.objects) :
      \A o \in BoundTo(ShownPath) : IsRebuilt(AfterTextTick(order), o, ShownDoc)

\* C4: when the text-watch tick finds the text shown changed, every object
\* linked to its path is afterwards exactly parse(text buffer), vertices
\* (ids, order) and faces, if bm.faces.new accepts every parsed face (no
\* face names a vertex twice, no two faces have the same vertices);
\* otherwise its geometry is what it was before the tick.
C4_TextTickRebuildsOrKeeps ==
  FileChanged(State) =>
    \A order \in Orders(vpg_collection.objects) :
      \A o \in BoundTo(ShownPath) :
        IF FacesBuildable(ShownDoc.faces, <<>>)
        THEN IsRebuilt(AfterTextTick(order), o, ShownDoc)
        ELSE /\ AfterTextTick(order).mesh[o].verts = mesh[o].verts
             /\ AfterTextTick(order).mesh[o].faces = mesh[o].faces

\* the tick has rebuilt an object from a text the user typed, which has a
\* face: the text shown is the last known text, is in the history, and the
\* object is exactly its parse
C4_Witness ==
  /\ TextWatched(State)
  /\ ~FileChanged(State)
  /\ history_stack # <<>>
  /\ texts[space_text] \in EditTexts
  /\ \E o \in BoundTo(ShownPath) :
       /\ mesh[o].faces # <<>>
       /\ IsRebuilt(State, o, ShownDoc)

\* what the poll tick leaves of s (no object stays marked between callbacks,
\* so there is one order to iterate the marked ones)
AfterPollTick(s) ==
  poll_active_operators(s, CHOOSE q \in Orders(s.modified_objects) : TRUE)

\* what the text-watch tick leaves of s, the one object made by the user
\* being the whole collection
AfterTextTickOf(s) ==
  check_open_int_file_for_changes(s, FALSE, CHOOSE q \in Orders(s.vpg_collection.objects) : TRUE)

\* the geometry of o is not what its stored text says: serializing it gives
\* another text
GeometryChanged(o) ==
  mesh_to_vpg_text(mesh[o], InEditMode(State, o), mesh[o].data).text # mesh[o].data

\* both sides of the document shown have changed since the last
\* reconciliation: the object being edited and the text buffer
BothChanged(o) ==
  /\ Linked(o)
  /\ InEditMode(State, o)
  /\ mesh[o].data # None
  /\ space_text = DocOf(o)
  /\ FileChanged(State)
  /\ prev_texts.d[space_text] = mesh[o].data
  /\ GeometryChanged(o)

\* C5: when both the geometry and the text buffer of a linked document have
\* changed, the text and the geometry left once both timers have run are the
\* same whether the poll timer or the text-watch timer runs first.
C5_OrderIndependent ==
  \A o \in Objs :
    BothChanged(o) =>
      /\ AfterTextTickOf(AfterPollTick(State)).texts
           = AfterPollTick(AfterTextTickOf(State)).texts
      /\ AfterTextTickOf(AfterPollTick(State)).mesh[o].verts
           = AfterPollTick(AfterTextTickOf(State)).mesh[o].verts

\* the rebuild from the text shown fails: an object is linked to its path
\* and bm.faces.new raises on a parsed face
RebuildFails ==
  /\ FileChanged(State)
  /\ BoundTo(ShownPath) # {}
  /\ ~FacesBuildable(ShownDoc.faces, <<>>)

\* C6: if the rebuild from a changed text fails during a text-watch tick, the
\* tick leaves the last known text, the history and the geometry as they
\* were.
C6_FailedTickChangesNothing ==
  RebuildFails =>
    \A order \in Orders(vpg_collection.objects) :
      /\ AfterTextTick(order).prev_texts = prev_texts
      /\ AfterTextTick(order).history_stack = history_stack
      /\ AfterTextTick(order).mesh = mesh

\* the tracked documents whose path no live mesh object refers to
Orphans ==
  {short \in DOMAIN short_to_full.d :
     short_to_full.d[short] \notin _collect_active_vpg_paths(State)}

\* this step is one of the timers or the depsgraph handler
TickStep == PollTick \/ TextTick \/ AutoTick \/ \E o \in Objs : DepsgraphUpdate(o)

\* C9: a tracked document whose path no live mesh object refers to is gone,
\* with its mapping entry, once the poll tick has run; and no tick brings a
\* document into being without a live mesh object linked to its path.
C9_OrphansRemoved ==
  /\ [](\A short \in Orphans :
          /\ short \notin DOMAIN AfterPollTick(State).texts
          /\ short \notin DOMAIN AfterPollTick(State).short_to_full.d)
  /\ [][\A short \in (DOMAIN texts') \ (DOMAIN texts) :
          TickStep => \E o \in objects' : to_short_filename(mesh'[o].path) = short]_vars

\* the cleanup has reclaimed a document: one that was tracked and shown, as
\* the history tells, is gone with its mapping entry
C9_Witness ==
  \E i \in 1..Len(history_stack) :
    /\ history_stack[i].short \notin DOMAIN texts
    /\ history_stack[i].short \notin DOMAIN short_to_full.d

\* C10: the poll tick that reclaims an orphan document leaves no history
\* entry recorded for its short name.
C10_HistoryReclaimed ==
  \A short \in Orphans :
    \A i \in 1..Len(AfterPollTick(State).history_stack) :
      AfterPollTick(State).history_stack[i].short # short

(***************************************************************************)
(* The history at work: recorded text changes, undo and redo               *)
(***************************************************************************)

\* a document as the user leaves it: n1 moved
MovedText ==
  <<Comment(1), VertexLine(n1, "ok", MkCo(1, TRUE)),
    VertexLine(n2, "ok", MkCo(1, TRUE)), EmptyLine>>

\* a document as the user leaves it: a third vertex and a triangle
TriangleText ==
  <<VertexLine(n1, "ok", MkCo(0, TRUE)), VertexLine(n2, "ok", MkCo(1, TRUE)),
    VertexLine(n3, "ok", MkCo(0, TRUE)), FaceLine(1, <<1, 2, 3>>, FALSE)>>

\* the scene the history is exercised in: /d1/a.vpg imported as o1, a mesh o2
\* of one vertex added and converted by check_imported_meshes (document
\* o2.vpg), a.vpg opened in the text editor
HistoryBase ==
  [auto_convert_new_imported_meshes(
     [import_execute([Registered EXCEPT !.disk = Files], "o1", FileA) EXCEPT
        !.objects = @ \cup {"o2"},
        !.mesh["o2"] = [DeadMesh EXCEPT !.verts = <<[id |-> NoId, co |-> 0]>>],
        !.active_object = "o2"],
     <<"o1", "o2">>)
   EXCEPT !.space_text = "a.vpg"]

\* what the user types in round n
RoundText(n) == IF n % 2 = 1 THEN MovedText ELSE TriangleText

\* one round: the user types RoundText(n) in a.vpg, the text-watch timer fires
EditRound(s, n) ==
  check_open_int_file_for_changes([s EXCEPT !.texts["a.vpg"] = RoundText(n)],
                                  FALSE, <<"o1", "o2">>)

\* the scene after rounds first, ..., last, made half by half; nothing is
\* typed where no document is there to type in
RECURSIVE AfterEdits(_, _, _)
AfterEdits(s, first, last) ==
  IF first > last \/ "a.vpg" \notin DOMAIN s.texts THEN s
  ELSE IF first = last THEN EditRound(s, first)
  ELSE AfterEdits(AfterEdits(s, first, (first + last) \div 2),
                  (first + last) \div 2 + 1, last)

\* how many such rounds were made before: none, one, and as many as bring
\* the history to its capacity or one short of it
RoundsBefore == {0, 1, HISTORY_STACK_SIZE - 1, HISTORY_STACK_SIZE}

InitHistory ==
  /\ MergeIdle
  /\ CodecIdle
  /\ pc = "running"
  /\ \E n \in RoundsBefore : Starts(AfterEdits(HistoryBase, 1, n))
  /\ user_ops = 0
  /\ AddonRegistered

\* Ctrl-Z: the undo handler calls on_undo_redo(context, True)
UserUndo ==
  \E order \in Orders(vpg_collection.objects) :
    UserOp(on_undo_redo(State, TRUE, order))

\* Ctrl-Shift-Z: the redo handler calls on_undo_redo(context, False)
UserRedo ==
  \E order \in Orders(vpg_collection.objects) :
    UserOp(on_undo_redo(State, FALSE, order))

NextHistory ==
  \/ \E short \in {"a.vpg", "o2.vpg"}, text \in {MovedText, TriangleText} :
       UserEditText(short, text)
  \/ \E short \in {"a.vpg", "o2.vpg"} : UserShowText(short)
  \/ UserUndo
  \/ UserRedo
  \/ TextTick

SpecHistory == InitHistory /\ [][NextHistory]_vars

(***************************************************************************)
(* Claims about the history                                                *)
(***************************************************************************)

\* the entry a record of the document shown appends
ShownEntry == [short |-> space_text, text |-> texts[space_text]]

\* the history after a record: entry is its last one and, when the record
\* was made with the cursor at the end of a full history, the others are the
\* former ones but the oldest
RecordedInto(after, entry) ==
  /\ Len(after) <= HISTORY_STACK_SIZE
  /\ Last(after) = entry
  /\ (/\ Len(history_stack) = HISTORY_STACK_SIZE
      /\ history_stack_idx >= HISTORY_STACK_SIZE - 1)
       => after = Append(Tail(history_stack), entry)

\* C11: the history never holds more than 250 entries, whatever was
\* recorded, undone and redone; a record keeps the new entry as the last one
\* and, when it would make the history exceed 250, removes the oldest entry.
C11_HistoryBounded ==
  /\ Len(history_stack) <= HISTORY_STACK_SIZE
  /\ FileChanged(State) =>
       \A order \in Orders(vpg_collection.objects) :
         RecordedInto(AfterTextTick(order).history_stack, ShownEntry)

\* a record was made into a full history: only then does the cursor stand at
\* 250 or beyond
C11_Witness ==
  /\ Len(history_stack) = HISTORY_STACK_SIZE
  /\ history_stack_idx >= HISTORY_STACK_SIZE
  /\ ~FileChanged(State)
  /\ Last(history_stack).text = texts[Last(history_stack).short]

\* C12: the cursor is -1 exactly when the history is empty, and otherwise
\* lies in [0, len(history) - 1], also after more than 250 records.
C12_CursorInRange ==
  IF history_stack = <<>> THEN history_stack_idx = -1
  ELSE history_stack_idx \in 0..(Len(history_stack) - 1)

\* where the claim puts the cursor: max(c - 1, 0) on undo, min(c + 1, len - 1)
\* on redo
MovedCursor(undoing) ==
  IF undoing THEN Max({history_stack_idx - 1, 0})
  ELSE Min({history_stack_idx + 1, Len(history_stack) - 1})

\* the geometry of o in s is the one generate_mesh builds from text
IsBuiltFrom(s, o, text) ==
  /\ s.mesh[o].verts = StampVerts(parse_vpg_text(text).verts)
  /\ s.mesh[o].faces = parse_vpg_text(text).faces

\* s is what the claim says of an undo or redo that lands on entry at cursor c
Replayed(s, c, entry) ==
  /\ s.history_stack_idx = c
  /\ s.texts[entry.short] = entry.text
  /\ \A o \in BoundTo(short_to_full.d[entry.short]) : IsBuiltFrom(s, o, entry.text)

\* an undo or redo can be made as the claim supposes: the history is not
\* empty, the cursor is on one of its entries, and the document of the entry
\* it lands on is there and tracked
CanReplay(undoing) ==
  /\ history_stack # <<>>
  /\ history_stack_idx \in 0..(Len(history_stack) - 1)
  /\ history_stack[MovedCursor(undoing) + 1].short \in DOMAIN texts
  /\ history_stack[MovedCursor(undoing) + 1].short \in DOMAIN short_to_full.d

\* C13: undo moves the cursor to max(c - 1, 0) and redo to min(c + 1, len - 1);
\* afterwards the document named by the entry at the new cursor holds that
\* entry's text and every object linked to that document is the geometry
\* built from it, whichever document the text editor shows.
C13_UndoRedoReplays ==
  \A undoing \in BOOLEAN :
    CanReplay(undoing) =>
      \A order \in Orders(vpg_collection.objects) :
        Replayed(on_undo_redo(State, undoing, order), MovedCursor(undoing),
                 history_stack[MovedCursor(undoing) + 1])

(***************************************************************************)
(* The add-on at work while the user never types in a document             *)
(***************************************************************************)

\* Next without UserEditText: every text written is written by the add-on
NextNoTyping ==
  \/ \E o \in NewNames, filepath \in DOMAIN Files : UserImport(o, filepath)
  \/ \E o \in NewNames, n \in 0..2 : UserAddMesh(o, n)
  \/ \E o \in Objs : UserDeleteObject(o)
  \/ \E o \in Objs : UserEnterEditMode(o)
  \/ UserLeaveEditMode
  \/ \E i \in 1..MaxMeshVerts, c \in Positions : UserMoveVertex(i, c)
  \/ \E c \in Positions : UserAddVertex(c)
  \/ \E i \in 1..MaxMeshVerts : UserDeleteVertex(i)
  \/ \E short \in {"a.vpg", "o1.vpg", "o2.vpg"} : UserShowText(short)
  \/ \E o \in Objs : DepsgraphUpdate(o)
  \/ PollTick
  \/ TextTick
  \/ AutoTick

SpecNoTyping == Init /\ [][NextNoTyping]_vars

\* C14: as long as every text buffer was written by the add-on only (import,
\* conversion of an unmapped mesh, geometry-to-text sync) and none was edited
\* by the user, no history entry is appended, neither at the write nor on a
\* later text-watch tick.
C14_NoHistoryWithoutTyping == history_stack = <<>>

(***************************************************************************)
(* The callbacks as Blender calls them: what they return, what they let    *)
(* escape, and _sync_object_text between its entry and its return          *)
(***************************************************************************)

\* operators.check_file_interval, in seconds
check_file_interval == "0.1"

\* mesh_watcher._poll_interval, in seconds
_poll_interval == "0.1"

\* the callback did not return: an exception left it
Raised == "raised"

\* bpy.app.timers calls a callback again after the interval it returned and
\* drops the one that raised
rearmed(registered, name, ret) ==
  IF ret = Raised THEN registered \ {name} ELSE registered

\* what raises inside a callback: nothing; bpy.context lacks what the
\* callback reads first (no screen, no scene); on_file_change
Faults == {"none", "context", "on_file_change"}

\* check_open_int_file_for_changes as far as it gets
text_work(s, fault, order) ==
  IF fault = "context" THEN s
  ELSE IF fault = "on_file_change"
  THEN [s EXCEPT !.prev_texts.d = Put(@, s.space_text, s.texts[s.space_text])]
  ELSE check_open_int_file_for_changes(s, FALSE, order)

\* a slip: the call is not wrapped in try/except
check_text_file_changes_unguarded(s, fault, order) ==
  [s |-> text_work(s, fault, order),
   ret |-> IF fault = "none" THEN check_file_interval ELSE Raised]

\* try: ... except Exception: pass; return check_file_interval
check_text_file_changes(s, fault, order) ==
  [s |-> text_work(s, fault, order), ret |-> check_file_interval]

check_imported_meshes(s, fault, order) ==
  [s |-> IF fault = "none" THEN auto_convert_new_imported_meshes(s, order) ELSE s,
   ret |-> check_file_interval]

\* poll_active_operators as a timer callback, from its entry to its return
poll_timer(s, fault, order) ==
  [s |-> IF fault = "none" THEN poll_active_operators(s, order) ELSE s,
   ret |-> _poll_interval]

\* _depsgraph_handler as a handler of depsgraph_update_post when the
\* exception is raised before an object is marked: nothing escapes
depsgraph_fault(s) == [s |-> s, raised |-> FALSE]

\* new_text when _sync_object_text goes on to write it, None when it returns
\* at "if new_text == old_text"
pending_text(s, o) ==
  IF s.mesh[o].path = NoPath THEN None
  ELSE IF mesh_to_vpg_text(s.mesh[o], InEditMode(s, o), sync_base_text(s, o)).text
            = sync_base_text(s, o)
  THEN None
  ELSE mesh_to_vpg_text(s.mesh[o], InEditMode(s, o), sync_base_text(s, o)).text

\* _sync_object_text down to "mesh[MESH_DATA] = new_text"; r is what
\* mesh_to_vpg_text returned
sync_begun(s, o, old_text, r) ==
  IF r.text = old_text THEN [s EXCEPT !.mesh[o].verts = r.verts]
  ELSE [s EXCEPT !.mesh[o].verts = r.verts, !.mesh[o].data = r.text]

sync_begin(s, o) ==
  IF s.mesh[o].path = NoPath THEN s
  ELSE sync_begun(s, o, sync_base_text(s, o),
                  mesh_to_vpg_text(s.mesh[o], InEditMode(s, o),
                                   sync_base_text(s, o)))

\* _sync_object_text from "text_editor.write_int_file(vpg_file_path,
\* new_text)" to its return
sync_end(s, o, new_text) ==
  IF new_text = None THEN s
  ELSE show_int_file(
         [write_int_file(s, s.mesh[o].path, new_text)
            EXCEPT !.prev_texts.d = Put(@, to_short_filename(s.mesh[o].path), new_text)],
         s.mesh[o].path)

\* the rest of the callback that called _sync_object_text, once it returned
caller_returns(s, from) ==
  IF from = "poll_active_operators" THEN _cleanup_orphan_internal_texts(s)
  ELSE flags_cleared(s)

\* the deepest nesting of callbacks followed
MaxNesting == 2

\* a callback runs and leaves s
WatchRun(s) ==
  /\ pc = "running"
  /\ Becomes(s)
  /\ UNCHANGED <<codec_vars, user_ops>>

\* a timer callback returned r
TimerReturned(name, r, fault) ==
  /\ WatchRun(r.s)
  /\ timers' = rearmed(timers, name, r.ret)
  /\ last_fault' = fault
  /\ UNCHANGED <<handler_raised, syncing>>

\* the timer of check_text_file_changes fires
TextTimer(fault) ==
  /\ syncing = <<>>
  /\ "check_text_file_changes" \in timers
  /\ fault = "on_file_change" => FileChanged(State)
  /\ \E order \in Orders(vpg_collection.objects) :
       TimerReturned("check_text_file_changes",
                     check_text_file_changes(State, fault, order), fault)

\* the timer of check_imported_meshes fires
AutoTimer(fault) ==
  /\ syncing = <<>>
  /\ "check_imported_meshes" \in timers
  /\ fault # "on_file_change"
  /\ \E order \in Orders(objects) :
       TimerReturned("check_imported_meshes",
                     check_imported_meshes(State, fault, order), fault)

\* poll_active_operators gets as far as _sync_object_text(context, active_obj)
PollSyncs(s) ==
  /\ s.active_object # NoObject
  /\ s.edit_mode
  /\ s.mesh[s.active_object].path # NoPath

\* the timer of poll_active_operators fires and the callback returns without
\* calling _sync_object_text
PollTimer(fault) ==
  /\ syncing = <<>>
  /\ "poll_active_operators" \in timers
  /\ fault # "on_file_change"
  /\ fault = "none" => ~PollSyncs(State)
  /\ \E order \in Orders(modified_objects) :
       TimerReturned("poll_active_operators", poll_timer(State, fault, order), fault)

\* a callback, having left s, enters _sync_object_text(context, o), which
\* runs down to "mesh[MESH_DATA] = new_text"
SyncEntered(s, o, from) ==
  /\ WatchRun(sync_begin(s, o))
  /\ syncing' = Append(syncing, [from |-> from, obj |-> o,
                                 new_text |-> pending_text(s, o)])
  /\ last_fault' = "none"
  /\ UNCHANGED <<timers, handler_raised>>

\* the timer of poll_active_operators fires and the callback calls
\* _sync_object_text on the active object
PollSyncBegin ==
  /\ syncing = <<>>
  /\ "poll_active_operators" \in timers
  /\ PollSyncs(State)
  /\ \E order \in Orders(modified_objects) :
       SyncEntered(export_if_marked(State, order), active_object,
                   "poll_active_operators")

\* depsgraph_update_post reports an update of o, whether or not a callback
\* is running: the handler marks o and, o being linked to a document, calls
\* export_modified_objects, which calls _sync_object_text
Notify(o, fault) ==
  /\ o \in objects
  /\ Len(syncing) < MaxNesting
  /\ fault # "on_file_change"
  /\ IF fault = "none" /\ mesh[o].path # NoPath
     THEN SyncEntered([mark_updates(State, {o}) EXCEPT !.modified_objects = {}],
                      o, "_depsgraph_handler")
     ELSE /\ WatchRun(depsgraph_fault(State).s)
          /\ handler_raised' = depsgraph_fault(State).raised
          /\ last_fault' = fault
          /\ UNCHANGED <<timers, syncing>>

\* the innermost _sync_object_text writes the document and returns, and the
\* callback that called it returns
SyncReturn ==
  /\ syncing # <<>>
  /\ WatchRun(caller_returns(sync_end(State, Last(syncing).obj, Last(syncing).new_text),
                             Last(syncing).from))
  /\ syncing' = Front(syncing)
  /\ timers' = IF Last(syncing).from = "poll_active_operators"
               THEN rearmed(timers, "poll_active_operators", _poll_interval)
               ELSE timers
  /\ UNCHANGED <<handler_raised, last_fault>>

\* the user acts between callbacks
UserActs ==
  /\ syncing = <<>>
  /\ \/ \E o \in NewNames, filepath \in DOMAIN Files : UserImport(o, filepath)
     \/ \E o \in Objs : UserEnterEditMode(o)
     \/ UserLeaveEditMode
     \/ \E i \in 1..MaxMeshVerts, c \in Positions : UserMoveVertex(i, c)
     \/ \E short \in {"a.vpg"}, text \in {MovedText, TriangleText} :
          UserEditText(short, text)
     \/ \E short \in {"a.vpg"} : UserShowText(short)
     \/ \E o \in Objs : UserDeleteObject(o)

NextWatch ==
  \/ UserActs
  \/ \E fault \in Faults : TextTimer(fault)
  \/ \E fault \in Faults : AutoTimer(fault)
  \/ \E fault \in Faults : PollTimer(fault)
  \/ PollSyncBegin
  \/ \E o \in Objs, fault \in Faults : Notify(o, fault)
  \/ SyncReturn

SpecWatch == Init /\ [][NextWatch]_vars

(***************************************************************************)
(* Claims about the callbacks                                              *)
(***************************************************************************)

\* C15: whatever raises inside a tick, poll_active_operators,
\* check_text_file_changes and check_imported_meshes return their interval
\* and stay registered, and no exception leaves the depsgraph handler: the
\* next tick still runs.
C15_WatchersStayArmed ==
  /\ timers = TimerNames
  /\ handler_raised = FALSE

\* a tick has raised while it reconciled a changed text, and returned
C15_Witness ==
  /\ last_fault = "on_file_change"
  /\ syncing = <<>>
  /\ "check_text_file_changes" \in timers
  /\ prev_texts.present
  /\ history_stack = <<>>

\* C16: two synchronizations never overlap: while one _sync_object_text has
\* not returned, a change notification does not start another one inline.
C16_NoOverlap == Len(syncing) <= 1

(***************************************************************************)
(* The parser on its own: texts with malformed and repeated lines          *)
(***************************************************************************)

\* longest text (in lines) given to the parser on its own
MaxParseLines == 4

n4 == MkId(FALSE, "num", 4)

\* the lines these texts are made of: vertex lines, one of them with the id
\* of another in upper case, one too short, one with a coordinate that is no
\* number; face lines, one naming a vertex twice, one with index 0, one with
\* an index beyond every vertex, one with a token that is no integer
ParseAlphabet ==
  {VertexLine(n1, "ok", MkCo(0, FALSE)),
   VertexLine(MkId(TRUE, "num", 1), "ok", MkCo(1, TRUE)),
   VertexLine(n2, "ok", MkCo(1, TRUE)),
   VertexLine(n3, "ok", MkCo(0, TRUE)),
   VertexLine(n4, "short", MkCo(0, TRUE)),
   VertexLine(n4, "nan", MkCo(0, TRUE)),
   FaceLine(1, <<1, 2, 3>>, FALSE),
   FaceLine(2, <<1, 1, 2>>, FALSE),
   FaceLine(3, <<0, 1, 2>>, FALSE),
   FaceLine(4, <<1, 2, 4>>, FALSE),
   FaceLine(5, <<1, 2, 3>>, TRUE)}

InitParse ==
  /\ filetext \in SeqsOf(ParseAlphabet, 1, MaxParseLines)
  /\ bm = NoMesh
  /\ vpg_text = None
  /\ pc = "text"
  /\ MergeIdle
  /\ SysIdle

\* the text is parsed and the geometry built from it
NextParse == CodecBuild

SpecParse == InitParse /\ [][NextParse]_vars

(***************************************************************************)
(* Claims about the parser                                                 *)
(***************************************************************************)

\* parse_vpg_text has been called on filetext
Parsed == pc # "text"

\* a vertex line of at least 4 tokens whose coordinates are numbers
WellFormed(l) == l.k = "n" /\ l.ok = "ok"

\* a vertex line that is not well-formed
Malformed(l) == l.k = "n" /\ l.ok # "ok"

\* the vertex a well-formed line stands for
VertexOf(l) == [id |-> Lower(l.id), co |-> ParseFloat(l.co)]

\* the well-formed vertex lines of a text, in source order
WellFormedLines(text) == SelectSeq(text, WellFormed)

\* no two of the lines carry the same id
DistinctIds(ls) ==
  \A i \in 1..Len(ls) : \A j \in 1..Len(ls) :
    i # j => Lower(ls[i].id) # Lower(ls[j].id)

\* the text without its line p
Without(text, p) == join(SubSeq(text, 1, p - 1) \o SubSeq(text, p + 1, Len(text)))

\* C17: a text of N well-formed vertex lines with distinct ids and any
\* number of malformed vertex lines (fewer than 4 tokens, a coordinate that
\* is no number) parses to exactly the N vertices of the well-formed lines,
\* in source order.
C17_MalformedLinesSkipped ==
  (Parsed /\ DistinctIds(WellFormedLines(filetext)))
    => parse_vpg_text(filetext).verts
         = [i \in 1..Len(WellFormedLines(filetext)) |->
              VertexOf(WellFormedLines(filetext)[i])]

\* a text with two well-formed vertex lines, a short one and one with a bad
\* coordinate has been parsed to two vertices
C17_Witness ==
  /\ Parsed
  /\ DistinctIds(WellFormedLines(filetext))
  /\ Len(WellFormedLines(filetext)) = 2
  /\ \E p \in 1..Len(filetext) : Malformed(filetext[p]) /\ filetext[p].ok = "short"
  /\ \E p \in 1..Len(filetext) : Malformed(filetext[p]) /\ filetext[p].ok = "nan"
  /\ Len(parse_vpg_text(filetext).verts) = 2

\* a face line one of whose first three indices is 0, is greater than count,
\* or is no integer
BadFaceLine(l, count) ==
  /\ l.k = "e"
  /\ Len(l.idx) >= 3
  /\ \/ l.nan
     \/ \E j \in 1..3 : l.idx[j] = 0 \/ l.idx[j] > count

\* every component of the face is an index of one of the count vertices
InBounds(f, count) == \A j \in 1..Len(f) : 0 <= f[j] /\ f[j] < count

\* C18: every component of every parsed face is in [0, number of parsed
\* vertices); a face line with an index 0, an index greater than the number
\* of parsed vertices or an index token that is no integer is dropped as a
\* whole: the parse is the parse of the text without that line.
C18_FaceIndexBounds ==
  Parsed =>
    /\ \A i \in 1..Len(parse_vpg_text(filetext).faces) :
         InBounds(parse_vpg_text(filetext).faces[i], Len(parse_vpg_text(filetext).verts))
    /\ \A p \in 1..Len(filetext) :
         BadFaceLine(filetext[p], Len(parse_vpg_text(filetext).verts))
           => parse_vpg_text(Without(filetext, p)) = parse_vpg_text(filetext)

\* a text with a face line that is kept and one with index 0 has been parsed
C18_Witness ==
  /\ Parsed
  /\ parse_vpg_text(filetext).faces # <<>>
  /\ \E p \in 1..Len(filetext) :
       /\ BadFaceLine(filetext[p], Len(parse_vpg_text(filetext).verts))
       /\ ~filetext[p].nan
       /\ 0 \in Range(filetext[p].idx)

\* line p is a well-formed vertex line whose id an earlier well-formed line
\* carries, in whatever case
RepeatsId(text, p) ==
  /\ WellFormed(text[p])
  /\ \E q \in 1..(p - 1) : WellFormed(text[q]) /\ Lower(text[q].id) = Lower(text[p].id)

\* C19: the ids of the parsed vertices are lower case and pairwise distinct;
\* a vertex line whose id an earlier vertex line carries is skipped: the kept
\* vertex is the one of the first line, and the parse (vertices, their
\* order, the faces and their indices) is the parse of the text without the
\* later line.
C19_FirstOccurrenceWins ==
  Parsed =>
    /\ \A i \in 1..Len(parse_vpg_text(filetext).verts) :
         /\ parse_vpg_text(filetext).verts[i].id.up = FALSE
         /\ \A j \in 1..Len(parse_vpg_text(filetext).verts) :
              i # j => parse_vpg_text(filetext).verts[i].id
                         # parse_vpg_text(filetext).verts[j].id
    /\ \A p \in 1..Len(filetext) :
         RepeatsId(filetext, p)
           => parse_vpg_text(Without(filetext, p)) = parse_vpg_text(filetext)
    /\ \A p \in 1..Len(filetext) :
         (WellFormed(filetext[p]) /\ ~RepeatsId(filetext, p))
           => \E i \in 1..Len(parse_vpg_text(filetext).verts) :
                parse_vpg_text(filetext).verts[i] = VertexOf(filetext[p])

\* n1 given twice, in lower case with one position and then in upper case
\* with another, a further vertex after them and a face on both: parsed to
\* n1 at the first position, n2 and the face
C19_Witness ==
  /\ Parsed
  /\ \E p \in 1..Len(filetext) :
       /\ RepeatsId(filetext, p)
       /\ filetext[p].id.up
       /\ \E q \in (p + 1)..Len(filetext) : WellFormed(filetext[q])
  /\ IdsOf(parse_vpg_text(filetext).verts) = <<n1, n2>>
  /\ parse_vpg_text(filetext).verts[1].co = 0
  /\ parse_vpg_text(filetext).faces = << <<0, 0, 1>> >>

(***************************************************************************)
(* The import operator on files of every kind                              *)
(***************************************************************************)

\* longest file (in lines) that is imported
MaxImportLines == 2

\* the lines these files are made of
ImportAlphabet ==
  {Comment(1), EmptyLine,
   VertexLine(n1, "ok", MkCo(0, FALSE)),
   VertexLine(n4, "short", MkCo(0, TRUE)),
   VertexLine(n4, "nan", MkCo(0, TRUE)),
   FaceLine(1, <<1, 1, 1>>, FALSE)}

\* what execute returns
import_result(s, filepath) ==
  IF parse_vpg_text(s.disk[filepath]).verts = <<>> THEN "CANCELLED" ELSE "FINISHED"

InitImport ==
  /\ MergeIdle
  /\ CodecIdle
  /\ pc = "running"
  /\ \E text \in SeqsOf(ImportAlphabet, 1, MaxImportLines) :
       Starts([Registered EXCEPT !.disk = [x \in {FileA} |-> text]])
  /\ user_ops = 0
  /\ AddonRegistered

NextImport ==
  \/ \E o \in NewNames : UserImport(o, FileA)
  \/ UserShowText("a.vpg")
  \/ PollTick
  \/ TextTick
  \/ AutoTick

SpecImport == InitImport /\ [][NextImport]_vars

\* parsing the file gives no vertex
ParseEmpty(filepath) == parse_vpg_text(disk[filepath]).verts = <<>>

\* no mesh object, no document, no path mapping and no last known text
NothingImported ==
  /\ objects = {}
  /\ texts = EmptyDict
  /\ short_to_full = AbsentDict
  /\ prev_texts = AbsentDict

\* C20: importing a file whose parse gives no vertex is reported as a failure
\* (CANCELLED) and changes nothing: no mesh object is made, no document is
\* written, no path mapping and no last known text is added, however often
\* the import is tried.
C20_EmptyImportRejected ==
  \A filepath \in DOMAIN disk :
    ParseEmpty(filepath) =>
      /\ import_result(State, filepath) = "CANCELLED"
      /\ \A o \in Objs \ objects : import_execute(State, o, filepath) = State
      /\ NothingImported

\* the import of a file that holds vertex lines, none of them well-formed,
\* has been tried
C20_Witness ==
  /\ user_ops > 0
  /\ ParseEmpty(FileA)
  /\ \E p \in 1..Len(disk[FileA]) : Malformed(disk[FileA][p])
  /\ NothingImported

(***************************************************************************)
(* export_vpg.py: the export operator                                      *)
(***************************************************************************)

\* utils.write_file: fails tells that open() raises IOError, which leaves the
\* disk as it is; ok is what the function returns
write_file(s, filepath, content, fails) ==
  [s |-> IF fails THEN s ELSE [s EXCEPT !.disk = Put(@, filepath, content)],
   ok |-> ~fails]

\* vpg_text: the document of the mapped path, else mesh[MESH_DATA], else None
export_text(s, o) ==
  IF s.mesh[o].path # NoPath /\ read_int_file(s, s.mesh[o].path) # None
  THEN read_int_file(s, s.mesh[o].path)
  ELSE s.mesh[o].data

\* the block under "if selected_path is not None and str(selected_path) != ''":
\* what write_file returns is not looked at
export_to_selected(s, o, selected_path, text, fails) ==
  [s |-> [write_file(s, selected_path, text, fails).s EXCEPT
            !.short_to_full =
               [present |-> TRUE,
                d |-> Put(@.d, to_short_filename(selected_path), selected_path)],
            !.mesh[o].path = selected_path],
   ret |-> "FINISHED"]

\* resolved
resolved_path(s, mapped_path) ==
  IF s.short_to_full.present /\ to_short_filename(mapped_path) \in DOMAIN s.short_to_full.d
  THEN s.short_to_full.d[to_short_filename(mapped_path)]
  ELSE mapped_path

\* the block under "if mapped_path"
export_to_mapped(s, mapped_path, text, fails) ==
  [s |-> [write_file(s, resolved_path(s, mapped_path), text, fails).s EXCEPT
            !.short_to_full =
               [present |-> TRUE,
                d |-> Put(@.d, to_short_filename(resolved_path(s, mapped_path)),
                          resolved_path(s, mapped_path))]],
   ret |-> "FINISHED"]

\* self.filepath is empty: the file browser gave no path
NoFilepath == ""

\* VPG_EDITOR_OT_export_vpg.execute; filepath is self.filepath
export_execute(s, filepath, fails) ==
  IF s.active_object = NoObject THEN [s |-> s, ret |-> "CANCELLED"]
  ELSE IF export_text(s, s.active_object) = None THEN [s |-> s, ret |-> "CANCELLED"]
  ELSE IF filepath # NoFilepath
  THEN export_to_selected(s, s.active_object, filepath,
                          export_text(s, s.active_object), fails)
  ELSE IF s.mesh[s.active_object].path # NoPath
  THEN export_to_mapped(s, s.mesh[s.active_object].path,
                        export_text(s, s.active_object), fails)
  ELSE [s |-> s, ret |-> "CANCELLED"]

(***************************************************************************)
(* The add-on at work with the export operator                             *)
(***************************************************************************)

\* the paths the user exports to: the file imported, a file of the same name
\* in another directory, a new name, and no path
ExportPaths == {FileA, "/d2/a.vpg", "b.vpg", NoFilepath}

\* File > Export > VPG; fails: the file cannot be written
UserExport(filepath, fails) ==
  UserOp(export_execute(State, filepath, fails).s)

NextExport ==
  \/ \E o \in NewNames, filepath \in DOMAIN Files : UserImport(o, filepath)
  \/ \E o \in {"o2"}, n \in 1..2 : UserAddMesh(o, n)
  \/ \E o \in Objs : UserDeleteObject(o)
  \/ \E o \in Objs : UserEnterEditMode(o)
  \/ UserLeaveEditMode
  \/ \E i \in 1..MaxMeshVerts, c \in Positions : UserMoveVertex(i, c)
  \/ \E short \in {"a.vpg", "b.vpg"} : UserEditText(short, MovedText)
  \/ \E short \in {"a.vpg", "b.vpg", "o2.vpg"} : UserShowText(short)
  \/ \E filepath \in ExportPaths, fails \in BOOLEAN : UserExport(filepath, fails)
  \/ \E o \in Objs : DepsgraphUpdate(o)
  \/ PollTick
  \/ TextTick
  \/ AutoTick

SpecExport == Init /\ [][NextExport]_vars

(***************************************************************************)
(* Claims about the export                                                 *)
(***************************************************************************)

\* execute gets as far as utils.write_file
ExportWrites(s, filepath) ==
  /\ s.active_object # NoObject
  /\ export_text(s, s.active_object) # None
  /\ filepath # NoFilepath \/ s.mesh[s.active_object].path # NoPath

\* C21: when write_file fails during an export, the export is reported as
\* failed (CANCELLED), the mesh keeps the path it had and the path mapping
\* gains no entry for the target path.
C21_FailedExportAborts ==
  \A filepath \in ExportPaths :
    ExportWrites(State, filepath) =>
      /\ export_execute(State, filepath, TRUE).ret = "CANCELLED"
      /\ export_execute(State, filepath, TRUE).s.mesh[active_object].path
           = mesh[active_object].path
      /\ export_execute(State, filepath, TRUE).s.short_to_full = short_to_full

(***************************************************************************)
(* The serializer on its own: meshes with faces of more than 3 vertices    *)
(***************************************************************************)

\* most vertices of a mesh whose faces are serialized
MaxFanVerts == 5

\* most faces of such a mesh
MaxFanFaces == 3

\* the faces such a mesh is made of (face.verts, by vertex index): no two on
\* the same vertices, as bmesh keeps them
FanFaces ==
  {<<0, 1, 2>>, <<2, 1, 0, 3>>, <<4, 2, 0>>, <<1, 2, 3, 4>>, <<0, 1, 2, 3, 4>>,
   <<5, 4, 3, 2, 1, 0>>}

\* the faces among these on the first n vertices
FacesOn(n) == {f \in FanFaces : \A j \in 1..Len(f) : f[j] < n}

\* a mesh of n vertices stamped n1..nK with the faces fs
FanMesh(n, fs) ==
  [verts |-> [i \in 1..n |-> [id |-> PosId(i - 1), co |-> 0]],
   faces |-> fs, layer |-> TRUE]

InitFan ==
  /\ filetext = EmptyText
  /\ \E n \in 3..MaxFanVerts :
       \E fs \in SeqsOf(FacesOn(n), 0, MaxFanFaces) :
         /\ \A i \in 1..Len(fs) : \A j \in 1..Len(fs) : i # j => fs[i] # fs[j]
         /\ bm = FanMesh(n, fs)
  /\ vpg_text = None
  /\ pc = "built"
  /\ MergeIdle
  /\ SysIdle

NextFan ==
  \/ \E i \in 1..MaxVerts, c \in MoveCoords : CodecMove(i, c)
  \/ \E in_edit_mode \in BOOLEAN : CodecSerialize(in_edit_mode)

SpecFan == InitFan /\ [][NextFan]_vars

(***************************************************************************)
(* Claims about the faces serialized                                       *)
(***************************************************************************)

\* mesh_to_vpg_text has been called on bm
Serialized == pc \in {"out_built", "out_moved"}

\* the face lines of a text, in order
FaceLinesOf(text) == SelectSeq(text, LAMBDA l : l.k = "e")

\* how many triangles the faces before face q make
RECURSIVE TrianglesBefore(_, _)
TrianglesBefore(faces, q) ==
  IF q <= 1 THEN 0
  ELSE TrianglesBefore(faces, q - 1) + Len(faces[q - 1]) - 2

\* C22: a face with vertices v0..v(n-1) is written as the n-2 triangles
\* (v0, vj, vj+1), j = 1..n-2, in this order and with 1-based indices, face
\* after face in traversal order, and the tags of all face lines are e1, e2,
\* ... without a gap.
C22_TriangleFan ==
  Serialized =>
    /\ Len(FaceLinesOf(vpg_text)) = TrianglesBefore(bm.faces, Len(bm.faces) + 1)
    /\ \A i \in 1..Len(FaceLinesOf(vpg_text)) : FaceLinesOf(vpg_text)[i].tag = i
    /\ \A q \in 1..Len(bm.faces) :
         \A j \in 1..(Len(bm.faces[q]) - 2) :
           FaceLinesOf(vpg_text)[TrianglesBefore(bm.faces, q) + j].idx
             = <<bm.faces[q][1] + 1, bm.faces[q][j + 1] + 1, bm.faces[q][j + 2] + 1>>

\* a face of five vertices, not the first one of the mesh and followed by
\* another, has been written as three triangles
C22_Witness ==
  /\ Serialized
  /\ Len(bm.faces) = 3
  /\ Len(bm.faces[1]) = 4
  /\ Len(bm.faces[2]) = 5
  /\ Len(FaceLinesOf(vpg_text)) = 6
  /\ FaceLinesOf(vpg_text)[5].idx = <<bm.faces[2][1] + 1, bm.faces[2][4] + 1, bm.faces[2][5] + 1>>

(***************************************************************************)
(* The pending set: marks left by a handler that raised, and their flush   *)
(***************************************************************************)

\* _depsgraph_handler when an exception is raised in the loop over
\* depsgraph.updates after the objects in updates were marked (a later update
\* whose object is gone): "if _do_export" is not reached, the marks and the
\* flags stay
handler_interrupted(s, updates) == mark_updates(s, updates)

\* depsgraph_update_post reports an update of o and of an object that raises
NotifyInterrupted(o) ==
  /\ o \in objects
  /\ mesh[o].path # NoPath
  /\ Len(syncing) < MaxNesting
  /\ WatchRun(handler_interrupted(State, {o}))
  /\ handler_raised' = FALSE
  /\ last_fault' = "later_update"
  /\ UNCHANGED <<timers, syncing>>

\* depsgraph_update_post reports an update of o: the handler marks o and
\* export_modified_objects runs over everything marked, o being the last one
\* of to_process and not yet returned from
NotifyFlush(o) ==
  /\ o \in objects
  /\ Len(syncing) < MaxNesting
  /\ IF mesh[o].path # NoPath
     THEN \E order \in Orders(modified_objects \ {o}) :
            SyncEntered(sync_each([mark_updates(State, {o}) EXCEPT
                                     !.modified_objects = {}], order),
                        o, "_depsgraph_handler")
     ELSE /\ \E order \in Orders(modified_objects) :
               WatchRun(_depsgraph_handler(State, {o}, order))
          /\ last_fault' = "none"
          /\ UNCHANGED <<timers, handler_raised, syncing>>

\* Add > Mesh between callbacks
UserAddsMesh ==
  /\ syncing = <<>>
  /\ UserAddMesh("o2", 1)

NextFlush ==
  \/ UserActs
  \/ UserAddsMesh
  \/ TextTimer("none")
  \/ AutoTimer("none")
  \/ PollTimer("none")
  \/ PollSyncBegin
  \/ \E o \in Objs : NotifyFlush(o)
  \/ \E o \in Objs : NotifyInterrupted(o)
  \/ SyncReturn

SpecFlush == Init /\ [][NextFlush]_vars

(***************************************************************************)
(* Claims about the poll tick and the pending set                          *)
(***************************************************************************)

\* the three steps of the poll tick, one after the other
FlushStep(s, order) == export_if_marked(s, order)

FallbackStep(s) == sync_active_object(s)

CleanupStep(s) == _cleanup_orphan_internal_texts(s)

\* the tracked documents of s whose path no live mesh object of s has
OrphansOf(s) ==
  {short \in DOMAIN s.short_to_full.d :
     s.short_to_full.d[short] \notin _collect_active_vpg_paths(s)}

\* o is marked and will be written by the flush, the active object a is not
\* marked and will be written by the fallback check
BothWritten(o, a) ==
  /\ o \in modified_objects
  /\ o \in objects
  /\ do_export \/ force_do_export
  /\ a \notin modified_objects
  /\ InEditMode(State, a)
  /\ pending_text(State, o) # None
  /\ pending_text(State, a) # None

\* C23: a poll tick that does not raise exports the marked objects first,
\* then checks the active object in edit mode, then cleans up the orphans:
\* what it leaves is what the three steps leave in this order, the document
\* shown at the end is the one the fallback check wrote, and no tracked
\* document is left whose path no live object has.
C23_PollOrder ==
  syncing = <<>> =>
    \A order \in Orders(modified_objects) :
      /\ poll_active_operators(State, order)
           = CleanupStep(FallbackStep(FlushStep(State, order)))
      /\ OrphansOf(poll_active_operators(State, order)) = {}
      /\ \A o \in Objs, a \in Objs :
           BothWritten(o, a) =>
             poll_active_operators(State, order).space_text
               = to_short_filename(mesh[a].path)

\* a poll tick is due with o1 marked and o2 edited, both to be written: the
\* tick writes both documents and leaves the one of o2 shown
C23_Witness ==
  /\ syncing = <<>>
  /\ BothWritten("o1", "o2")
  /\ AfterPollTick(State).texts["a.vpg"] # texts["a.vpg"]
  /\ AfterPollTick(State).texts["o2.vpg"] # texts["o2.vpg"]
  /\ AfterPollTick(State).space_text = "o2.vpg"
  /\ AfterPollTick(State).modified_objects = {}

\* C28: between callbacks no mark is pending with both export flags cleared,
\* so the next poll tick synchronizes every object a notification marked,
\* and a flush leaves the pending set empty.
C28_MarksFlushed ==
  syncing = <<>> =>
    /\ modified_objects # {} => (do_export \/ force_do_export)
    /\ \A order \in Orders(modified_objects) :
         /\ poll_active_operators(State, order).modified_objects = {}
         /\ export_modified_objects(State, order).modified_objects = {}

(***************************************************************************)
(* The serializer on its own: meshes with stamped ids of every kind        *)
(***************************************************************************)

\* most vertices of a mesh whose stamped ids are serialized
MaxStampVerts == 3

\* what a vertex holds in the node id layer: nothing, n1, n2, n3, N1, and an
\* id that starts with n and does not go on with digits only
StampIds ==
  {NoId, n1, n2, n3, MkId(TRUE, "num", 1), MkId(FALSE, "alpha", 1)}

\* the faces of a mesh of n vertices: none, or one triangle on the first three
StampFaces(n) == IF n >= 3 THEN {<<>>, << <<0, 1, 2>> >>} ELSE {<<>>}

\* a mesh whose vertices hold ids; without the layer no vertex holds one
StampMesh(ids, fs, layer) ==
  [verts |-> [i \in 1..Len(ids) |-> [id |-> IF layer THEN ids[i] ELSE NoId, co |-> 0]],
   faces |-> fs, layer |-> layer]

InitStamp ==
  /\ filetext = EmptyText
  /\ \E ids \in SeqsOf(StampIds, 1, MaxStampVerts) :
       \E fs \in StampFaces(Len(ids)) :
         \E layer \in BOOLEAN :
           /\ ~layer => \A i \in 1..Len(ids) : ids[i] = NoId
           /\ bm = StampMesh(ids, fs, layer)
  /\ vpg_text = None
  /\ pc = "built"
  /\ MergeIdle
  /\ SysIdle

NextStamp ==
  \/ \E i \in 1..MaxVerts, c \in MoveCoords : CodecMove(i, c)
  \/ \E in_edit_mode \in BOOLEAN : CodecSerialize(in_edit_mode)

SpecStamp == InitStamp /\ [][NextStamp]_vars

(***************************************************************************)
(* Claims about the ids serialized                                         *)
(***************************************************************************)

\* mesh_to_vpg_text is about to be called on bm
ToSerialize == pc \in {"built", "moved"}

\* the ids the vertices hold, NoId for none
StampedIds(m) == [i \in 1..Len(m.verts) |-> ReadNodeId(m.verts[i], m.layer)]

\* every id that is held matches n<digits>
AllHeldMatch(ids) == \A i \in 1..Len(ids) : ids[i] # NoId => MatchesPattern(ids[i])

\* two vertices hold the same id, a vertex holds none, or the vertex at some
\* position k (from 0) does not hold n(k+1)
NotDense(ids) ==
  \/ \E i \in 1..Len(ids) : \E j \in 1..Len(ids) : i # j /\ ids[i] # NoId /\ ids[i] = ids[j]
  \/ \E i \in 1..Len(ids) : ids[i] = NoId
  \/ \E i \in 1..Len(ids) : ids[i] # PosId(i - 1)

\* the ids are n1, ..., nK by position
ByPosition(ids) == \A i \in 1..Len(ids) : ids[i] = PosId(i - 1)

\* what serializing bm gives, in edit mode or not
SerializedAs(in_edit_mode) == mesh_to_vpg_text(bm, in_edit_mode, None)

\* C24: when every id held matches n<digits> and two vertices hold the same
\* id, some vertex holds none or some vertex at position k does not hold
\* n(k+1), the serialization emits n(k+1) for the vertex at every position k
\* and leaves every vertex stamped with it.
C24_RenumberRestamps ==
  (ToSerialize /\ AllHeldMatch(StampedIds(bm)) /\ NotDense(StampedIds(bm)))
    => \A in_edit_mode \in BOOLEAN :
         /\ ByPosition(IdTokens(SerializedAs(in_edit_mode).text))
         /\ Len(IdTokens(SerializedAs(in_edit_mode).text)) = Len(bm.verts)
         /\ ByPosition(IdsOf(SerializedAs(in_edit_mode).verts))

\* a vertex holds an id that does not match n<digits>
SomeHeldFails(ids) == \E i \in 1..Len(ids) : ids[i] # NoId /\ ~MatchesPattern(ids[i])

\* the id is missing or does not match n<digits>
Invalid(id) == id = NoId \/ ~MatchesPattern(id)

\* C25: when a vertex holds an id that does not match n<digits>, nothing is
\* renumbered: a vertex whose id is missing or does not match is emitted with
\* n<position+1>, a vertex whose id matches is emitted with its own id (in
\* lower case).
C25_InvalidGetFreshIds ==
  (ToSerialize /\ SomeHeldFails(StampedIds(bm)))
    => \A in_edit_mode \in BOOLEAN :
         /\ Len(IdTokens(SerializedAs(in_edit_mode).text)) = Len(bm.verts)
         /\ \A i \in 1..Len(bm.verts) :
              IdTokens(SerializedAs(in_edit_mode).text)[i]
                = IF Invalid(StampedIds(bm)[i]) THEN PosId(i - 1)
                  ELSE Lower(StampedIds(bm)[i])

\* no two of the ids are the same
PairwiseDistinct(ids) ==
  \A i \in 1..Len(ids) : \A j \in 1..Len(ids) : i # j => ids[i] # ids[j]

\* C30: the ids one serialization emits are pairwise distinct whatever the
\* vertices hold, so parsing the text gives as many vertices as the mesh has
\* and the faces with the indices they were written with.
C30_EmittedIdsDistinct ==
  ToSerialize =>
    \A in_edit_mode \in BOOLEAN :
      /\ PairwiseDistinct(IdTokens(SerializedAs(in_edit_mode).text))
      /\ Len(parse_vpg_text(SerializedAs(in_edit_mode).text).verts) = Len(bm.verts)
      /\ parse_vpg_text(SerializedAs(in_edit_mode).text).faces = bm.faces

(***************************************************************************)
(* The add-on at work on meshes that were not imported                     *)
(***************************************************************************)

\* the names of the meshes the user adds
AddedNames == {"o2", "m.1", "m_1"}

NextAuto ==
  \/ \E o \in NewNames, filepath \in DOMAIN Files : UserImport(o, filepath)
  \/ \E o \in AddedNames, n \in 0..2 : UserAddMesh(o, n)
  \/ \E o \in Objs : UserDeleteObject(o)
  \/ \E o \in Objs : UserEnterEditMode(o)
  \/ UserLeaveEditMode
  \/ \E c \in Positions : UserAddVertex(c)
  \/ AutoTick
  \/ PollTick

SpecAuto == Init /\ [][NextAuto]_vars

(***************************************************************************)
(* Claims about the auto-detection                                         *)
(***************************************************************************)

\* what mesh_to_vpg_text(mesh, obj) gives for o in s
serialization(s, o) == mesh_to_vpg_text(s.mesh[o], InEditMode(s, o), None).text

\* o is a mesh object of s without a path and with a vertex
Unmapped(s, o) ==
  /\ o \in s.objects
  /\ s.mesh[o].path = NoPath
  /\ s.mesh[o].verts # <<>>

\* o is linked in s: it has a path, the document of that path is tracked and
\* holds text, and so does the text cached on the mesh
LinkedWith(s, o, text) ==
  /\ s.mesh[o].path # NoPath
  /\ to_short_filename(s.mesh[o].path) \in DOMAIN s.texts
  /\ to_short_filename(s.mesh[o].path) \in DOMAIN s.short_to_full.d
  /\ s.short_to_full.d[to_short_filename(s.mesh[o].path)] = s.mesh[o].path
  /\ s.texts[to_short_filename(s.mesh[o].path)] = text
  /\ s.mesh[o].data = text

\* C26: after an auto-detection tick every mesh object that had no path and
\* has a vertex is linked: it has a path, the document of that path is
\* tracked and holds the serialization of the object, and the text cached on
\* the mesh is that content; an object that had a path is left as it was.
C26_AutoLink ==
  \A order \in Orders(objects) :
    \A o \in objects :
      /\ Unmapped(State, o)
           => LinkedWith(auto_convert_new_imported_meshes(State, order), o,
                         serialization(State, o))
      /\ mesh[o].path # NoPath
           => auto_convert_new_imported_meshes(State, order).mesh[o] = mesh[o]

(***************************************************************************)
(* Claims about the text cached on the mesh                                *)
(***************************************************************************)

\* the text-watch tick rebuilds the objects of the document shown: the text
\* has changed and bm.faces.new accepts every parsed face
TickRebuilds ==
  /\ FileChanged(State)
  /\ BoundTo(ShownPath) # {}
  /\ FacesBuildable(ShownDoc.faces, <<>>)

\* the user has edited the document shown: the buffer is not what the file
\* holds
BufferEdited == texts[space_text] # read_file(State, ShownPath)

\* C27: once the text-watch tick has rebuilt an object from the text buffer,
\* the text cached on its mesh is the buffer content that was parsed, and a
\* geometry tick for that object that follows without a further edit writes
\* nothing: the buffer keeps every line the user edited, nothing in it is
\* replaced by content of the file on disk.
C27_CacheIsParsedText ==
  (TickRebuilds /\ BufferEdited) =>
    \A order \in Orders(vpg_collection.objects) :
      \A o \in BoundTo(ShownPath) :
        /\ AfterTextTick(order).mesh[o].data = texts[space_text]
        /\ _sync_object_text(AfterTextTick(order), o).texts
             = AfterTextTick(order).texts

(***************************************************************************)
(* Claims about repeated merges                                            *)
(***************************************************************************)

\* C29: the merge is idempotent: merging the geometry lines into the text
\* that a merge of the same lines gave changes nothing, so the tick that
\* follows the write of a geometry change finds new text equal to the text
\* it wrote.
C29_MergeIdempotent ==
  /\ pc = "remerged" => merged = base_text
  /\ pc = "merged" => merge_geometry_with_existing(merged, geometry_lines) = merged

(***************************************************************************)
(* Claims about what stays tracked                                         *)
(***************************************************************************)

\* o is live in s and its mesh has a path
LiveLinked(s, o) == o \in s.objects /\ s.mesh[o].path # NoPath

\* the document of the path of o is in bpy.data.texts
HasDocument(s, o) == to_short_filename(s.mesh[o].path) \in DOMAIN s.texts

\* the path mapping holds an entry for the path of o
HasMapping(s, o) ==
  /\ to_short_filename(s.mesh[o].path) \in DOMAIN s.short_to_full.d
  /\ s.short_to_full.d[to_short_filename(s.mesh[o].path)] = s.mesh[o].path

\* C31: at the end of each poll tick, every live mesh object that has a path
\* has a tracked text document and a path-mapping entry for that path,
\* whatever imports, exports, edits and ticks came before.
C31_LinkedStayTracked ==
  \A order \in Orders(modified_objects) :
    \A o \in objects :
      LiveLinked(poll_active_operators(State, order), o) =>
        /\ HasDocument(poll_active_operators(State, order), o)
        /\ HasMapping(poll_active_operators(State, order), o)

\* the state the poll tick hands to the cleanup pass
BeforeCleanup(order) == sync_active_object(export_if_marked(State, order))

\* what s tracks under the short name of the path of o is tracked in t too
KeepsTracked(s, t, o) ==
  /\ HasDocument(s, o) => HasDocument(t, o)
  /\ HasMapping(s, o) => HasMapping(t, o)
  /\ to_short_filename(s.mesh[o].path) \in DOMAIN s.prev_texts.d
       => to_short_filename(s.mesh[o].path) \in DOMAIN t.prev_texts.d

\* C32: the orphan cleanup pass never deletes the text document, the
\* path-mapping entry or the last-known-text record of a mesh object that is
\* live and has a path, also when two tracked paths have the same basename.
C32_CleanupSparesLinked ==
  \A order \in Orders(modified_objects) :
    \A o \in objects :
      LiveLinked(BeforeCleanup(order), o) =>
        KeepsTracked(BeforeCleanup(order),
                     _cleanup_orphan_internal_texts(BeforeCleanup(order)), o)

(***************************************************************************)
(* Claims about undo followed by redo                                      *)
(***************************************************************************)

\* the entry recorded last
Newest == history_stack[Len(history_stack)]

\* the two newest entries are changes of one document, which is tracked and
\* holds the text of the newest one, in its buffer and as its last-known text
TwoChangesRecorded ==
  /\ Len(history_stack) >= 2
  /\ history_stack[Len(history_stack) - 1].short = Newest.short
  /\ Newest.short \in DOMAIN texts
  /\ Newest.short \in DOMAIN short_to_full.d
  /\ Newest.short \in DOMAIN prev_texts.d
  /\ texts[Newest.short] = Newest.text
  /\ prev_texts.d[Newest.short] = Newest.text

\* on_undo_redo(context, True) and then on_undo_redo(context, False)
UndoThenRedo(order) == on_undo_redo(on_undo_redo(State, TRUE, order), FALSE, order)

\* t has the buffer, the last-known text, the cursor and the history of the
\* current state, for the document the newest entry names
SameDocumentState(t) ==
  /\ Newest.short \in DOMAIN t.texts
  /\ t.texts[Newest.short] = texts[Newest.short]
  /\ Newest.short \in DOMAIN t.prev_texts.d
  /\ t.prev_texts.d[Newest.short] = prev_texts.d[Newest.short]
  /\ t.history_stack_idx = history_stack_idx
  /\ t.history_stack = history_stack

\* the cursor is where the record of the newest entry left it, nothing was
\* undone since: no entry lies after it
CursorOnNewest == history_stack_idx >= Len(history_stack) - 1

\* C33: with at least two changes of a document recorded and the cursor on
\* the newest entry, an undo followed at once by a redo leaves the buffer of
\* the document, its last-known text, the cursor and the history entries as
\* they were before the undo, also after more than 250 records.
C33_UndoRedoRoundTrip ==
  (TwoChangesRecorded /\ CursorOnNewest) =>
    \A order \in Orders(vpg_collection.objects) :
      SameDocumentState(UndoThenRedo(order))

====
